---- MODULE Spec2Model ----
(***************************************************************************)
(* Subscribe event engine of the PubNub Rust SDK.                          *)
(*                                                                         *)
(* The module models SubscribeState and its transition functions           *)
(* (dx/subscribe/event_engine/state.rs), SubscribeInput (types.rs), the    *)
(* handshake reconnection effect (effects/handshake_reconnection.rs) and   *)
(* the request retry policy (core/retry_policy.rs).                        *)
(*                                                                         *)
(* Rust's Option<T> is modelled as a record: None is [some |-> FALSE] and  *)
(* Some(v) is [some |-> TRUE, value |-> v].  Enum variants are records     *)
(* tagged with a `name` field (`kind` for PubNubError, to keep the error   *)
(* apart from the states that carry it).                                   *)
(***************************************************************************)
EXTENDS Integers, Sequences, FiniteSets, TLC

VARIABLES
    state,        \* EventEngine's current state (a SubscribeState)
    policy,       \* RequestRetryPolicy the effect handler was built with
    event,        \* Option: the event handed to the last process() call
    previous,     \* the state the last process() call started from
    invocations,  \* invocations the last process() call handed to the dispatcher
    running,      \* Option: the long-poll effect invocation in flight
    lastRun,      \* Option: [invocation, events] of the effect the last step completed
    retry,        \* Option: the last call of the retry policy, with its results
    manager,      \* SubscriptionManager: subscribers; last call and its notify_update calls
    presence,     \* presence engine: state, effects in flight, cancellation channel,
                  \* and the Leave effect the last step ran with its executor calls
    queue         \* EventEngine's FIFO queue: events waiting for process(), each with
                  \* the effect invocation that produced it (None for the application)

vars ==
    <<state, policy, event, previous, invocations, running, lastRun, retry, manager,
      presence, queue>>

-----------------------------------------------------------------------------
(* Option<T> *)

None == [some |-> FALSE]

Some(v) == [some |-> TRUE, value |-> v]

\* Option::unwrap_or
unwrap_or(opt, default) == IF opt.some THEN opt.value ELSE default

Range(seq) == {seq[i] : i \in 1..Len(seq)}

\* the outcome of an arithmetic overflow in a build with overflow checks
Panic == [panic |-> TRUE]

\* u8::overflowing_add
u8_overflowing_add(a, b) == [value |-> (a + b) % 256, overflow |-> a + b > 255]

-----------------------------------------------------------------------------
(* Bounds and value domains *)

\* states with more retry attempts than this are not explored
MaxAttempts == 3

\* largest max_retry of the explored retry policies
MaxRetry == 2

\* Option<Vec<String>> channel lists an event can carry
ChannelLists == {None, Some(<<>>), Some(<<"ch1", "ch1">>)}

\* Option<Vec<String>> channel-group lists an event can carry
GroupLists == {None, Some(<<"gr1">>)}

SubscribeCursor(timetoken, region) == [timetoken |-> timetoken, region |-> region]

Cursors == {SubscribeCursor("10", 1), SubscribeCursor("20", 1)}

Transport(details) == [kind |-> "Transport", details |-> details]

API(status) == [kind |-> "API", status |-> status]

EffectCanceled == [kind |-> "EffectCanceled"]

\* failure reasons carried by events
Reasons == {Transport("t1"), API(500)}

\* Vec<Update> batches a receive can deliver
MessageBatches == {<<>>, <<"M1", "M2">>}

-----------------------------------------------------------------------------
(* SubscribeInput *)

IsEmptyOption(set) == IF set.some THEN set.value = {} ELSE TRUE

\* SubscribeInput::new: the vectors are folded into sets
SubscribeInput_new(channels, channel_groups) ==
    LET chs == IF channels.some THEN Some(Range(channels.value)) ELSE None
        grs == IF channel_groups.some THEN Some(Range(channel_groups.value)) ELSE None
    IN  [channels |-> chs,
         channel_groups |-> grs,
         is_empty |-> IsEmptyOption(grs) /\ IsEmptyOption(chs)]

Inputs == {SubscribeInput_new(c, g) : c \in ChannelLists, g \in GroupLists}

\* the match of Add and AddAssign on one pair of optional sets
chain(lhs, rhs) ==
    IF lhs.some /\ rhs.some THEN Some(lhs.value \cup rhs.value)
    ELSE IF lhs.some THEN lhs
    ELSE IF rhs.some THEN rhs
    ELSE None

\* the match of Sub and SubAssign on one pair of optional sets
difference(lhs, rhs) ==
    IF lhs.some /\ rhs.some THEN Some(lhs.value \ rhs.value)
    ELSE IF lhs.some THEN lhs
    ELSE None

\* impl Add for SubscribeInput
SubscribeInput_add(self, rhs) ==
    LET channel_groups == chain(self.channel_groups, rhs.channel_groups)
        channels == chain(self.channels, rhs.channels)
    IN  [channels |-> channels,
         channel_groups |-> channel_groups,
         is_empty |-> IsEmptyOption(channel_groups) /\ IsEmptyOption(channels)]

\* impl AddAssign for SubscribeInput: the three fields of self are assigned
SubscribeInput_add_assign(self, rhs) ==
    LET channel_groups == chain(self.channel_groups, rhs.channel_groups)
        channels == chain(self.channels, rhs.channels)
    IN  [self EXCEPT !.channels = channels,
                     !.channel_groups = channel_groups,
                     !.is_empty = IsEmptyOption(channel_groups) /\ IsEmptyOption(channels)]

\* a subtraction matched like the addition: an absent left side takes the right one
SubscribeInput_sub_like_add(self, rhs) ==
    LET channel_groups == IF self.channel_groups.some
                          THEN difference(self.channel_groups, rhs.channel_groups)
                          ELSE rhs.channel_groups
        channels == IF self.channels.some THEN difference(self.channels, rhs.channels)
                    ELSE rhs.channels
    IN  [channels |-> channels,
         channel_groups |-> channel_groups,
         is_empty |-> IsEmptyOption(channel_groups) /\ IsEmptyOption(channels)]

\* impl Sub for SubscribeInput
SubscribeInput_sub(self, rhs) ==
    LET channel_groups == difference(self.channel_groups, rhs.channel_groups)
        channels == difference(self.channels, rhs.channels)
    IN  [channels |-> channels,
         channel_groups |-> channel_groups,
         is_empty |-> IsEmptyOption(channel_groups) /\ IsEmptyOption(channels)]

\* impl SubAssign for SubscribeInput: the three fields of self are assigned
SubscribeInput_sub_assign(self, rhs) ==
    LET channel_groups == difference(self.channel_groups, rhs.channel_groups)
        channels == difference(self.channels, rhs.channels)
    IN  [self EXCEPT !.channels = channels,
                     !.channel_groups = channel_groups,
                     !.is_empty = IsEmptyOption(channel_groups) /\ IsEmptyOption(channels)]

-----------------------------------------------------------------------------
(* SubscribeStatus *)

Connected == [name |-> "Connected"]

Disconnected == [name |-> "Disconnected"]

ConnectionError(reason) == [name |-> "ConnectionError", reason |-> reason]

-----------------------------------------------------------------------------
(* SubscribeEffectInvocation *)

Handshake(input, cursor) == [name |-> "Handshake", input |-> input, cursor |-> cursor]

HandshakeReconnect(input, cursor, attempts, reason) ==
    [name |-> "HandshakeReconnect", input |-> input, cursor |-> cursor,
     attempts |-> attempts, reason |-> reason]

Receive(input, cursor) == [name |-> "Receive", input |-> input, cursor |-> cursor]

ReceiveReconnect(input, cursor, attempts, reason) ==
    [name |-> "ReceiveReconnect", input |-> input, cursor |-> cursor,
     attempts |-> attempts, reason |-> reason]

CancelHandshake == [name |-> "CancelHandshake"]

CancelHandshakeReconnect == [name |-> "CancelHandshakeReconnect"]

CancelReceive == [name |-> "CancelReceive"]

CancelReceiveReconnect == [name |-> "CancelReceiveReconnect"]

EmitStatus(status) == [name |-> "EmitStatus", status |-> status]

EmitMessages(messages) == [name |-> "EmitMessages", messages |-> messages]

StartNames == {"Handshake", "HandshakeReconnect", "Receive", "ReceiveReconnect"}

CancelNames == {"CancelHandshake", "CancelHandshakeReconnect", "CancelReceive",
                "CancelReceiveReconnect"}

-----------------------------------------------------------------------------
(* SubscribeState *)

Unsubscribed == [name |-> "Unsubscribed"]

Handshaking(input, cursor) == [name |-> "Handshaking", input |-> input, cursor |-> cursor]

HandshakeReconnecting(input, cursor, attempts, reason) ==
    [name |-> "HandshakeReconnecting", input |-> input, cursor |-> cursor,
     attempts |-> attempts, reason |-> reason]

HandshakeStopped(input, cursor) ==
    [name |-> "HandshakeStopped", input |-> input, cursor |-> cursor]

HandshakeFailed(input, cursor, reason) ==
    [name |-> "HandshakeFailed", input |-> input, cursor |-> cursor, reason |-> reason]

Receiving(input, cursor) == [name |-> "Receiving", input |-> input, cursor |-> cursor]

ReceiveReconnecting(input, cursor, attempts, reason) ==
    [name |-> "ReceiveReconnecting", input |-> input, cursor |-> cursor,
     attempts |-> attempts, reason |-> reason]

ReceiveStopped(input, cursor) ==
    [name |-> "ReceiveStopped", input |-> input, cursor |-> cursor]

ReceiveFailed(input, cursor, reason) ==
    [name |-> "ReceiveFailed", input |-> input, cursor |-> cursor, reason |-> reason]

StateNames == {"Unsubscribed", "Handshaking", "HandshakeReconnecting", "HandshakeStopped",
               "HandshakeFailed", "Receiving", "ReceiveReconnecting", "ReceiveStopped",
               "ReceiveFailed"}

-----------------------------------------------------------------------------
(* SubscribeEvent *)

SubscriptionChanged(channels, channel_groups) ==
    [name |-> "SubscriptionChanged", channels |-> channels,
     channel_groups |-> channel_groups]

SubscriptionRestored(channels, channel_groups, cursor) ==
    [name |-> "SubscriptionRestored", channels |-> channels,
     channel_groups |-> channel_groups, cursor |-> cursor]

HandshakeSuccess(cursor) == [name |-> "HandshakeSuccess", cursor |-> cursor]

HandshakeFailure(reason) == [name |-> "HandshakeFailure", reason |-> reason]

HandshakeReconnectSuccess(cursor) == [name |-> "HandshakeReconnectSuccess", cursor |-> cursor]

HandshakeReconnectFailure(reason) == [name |-> "HandshakeReconnectFailure", reason |-> reason]

HandshakeReconnectGiveUp(reason) == [name |-> "HandshakeReconnectGiveUp", reason |-> reason]

ReceiveSuccess(cursor, messages) ==
    [name |-> "ReceiveSuccess", cursor |-> cursor, messages |-> messages]

ReceiveFailure(reason) == [name |-> "ReceiveFailure", reason |-> reason]

ReceiveReconnectSuccess(cursor, messages) ==
    [name |-> "ReceiveReconnectSuccess", cursor |-> cursor, messages |-> messages]

ReceiveReconnectFailure(reason) == [name |-> "ReceiveReconnectFailure", reason |-> reason]

ReceiveReconnectGiveUp(reason) == [name |-> "ReceiveReconnectGiveUp", reason |-> reason]

Disconnect == [name |-> "Disconnect"]

Reconnect == [name |-> "Reconnect"]

UnsubscribeAll == [name |-> "UnsubscribeAll"]

-----------------------------------------------------------------------------
(* impl State for SubscribeState *)

\* Option::unwrap_or_default on an Option<Vec<_>>
unwrap_or_default(opt) == IF opt.some THEN opt.value ELSE <<>>

\* enter() that resumes the receive in a stopped receive
enter_while_stopped(self) ==
    CASE self.name = "Handshaking" ->
            Some(<<Handshake(self.input, self.cursor)>>)
      [] self.name = "HandshakeReconnecting" ->
            Some(<<HandshakeReconnect(self.input, self.cursor, self.attempts, self.reason)>>)
      [] self.name \in {"Receiving", "ReceiveStopped"} ->
            Some(<<Receive(self.input, self.cursor)>>)
      [] self.name = "ReceiveReconnecting" ->
            Some(<<ReceiveReconnect(self.input, self.cursor, self.attempts, self.reason)>>)
      [] OTHER -> None

enter(self) ==
    CASE self.name = "Handshaking" ->
            Some(<<Handshake(self.input, self.cursor)>>)
      [] self.name = "HandshakeReconnecting" ->
            Some(<<HandshakeReconnect(self.input, self.cursor, self.attempts, self.reason)>>)
      [] self.name = "Receiving" ->
            Some(<<Receive(self.input, self.cursor)>>)
      [] self.name = "ReceiveReconnecting" ->
            Some(<<ReceiveReconnect(self.input, self.cursor, self.attempts, self.reason)>>)
      [] OTHER -> None

\* exit() that forgets the cancel of the receive reconnection
exit_without_receive_reconnect_cancel(self) ==
    CASE self.name = "Handshaking" -> Some(<<CancelHandshake>>)
      [] self.name = "HandshakeReconnecting" -> Some(<<CancelHandshakeReconnect>>)
      [] self.name = "Receiving" -> Some(<<CancelReceive>>)
      [] OTHER -> None

exit(self) ==
    CASE self.name = "Handshaking" -> Some(<<CancelHandshake>>)
      [] self.name = "HandshakeReconnecting" -> Some(<<CancelHandshakeReconnect>>)
      [] self.name = "Receiving" -> Some(<<CancelReceive>>)
      [] self.name = "ReceiveReconnecting" -> Some(<<CancelReceiveReconnect>>)
      [] OTHER -> None

Transition(next, invs) == [state |-> next, invocations |-> invs]

\* a transition that does not leave the current state
transition_to_without_exit(self, next, invs) ==
    Transition(next, unwrap_or_default(invs) \o unwrap_or_default(enter(next)))

\* a transition that enters the next state before it leaves the current one
transition_to_enter_first(self, next, invs) ==
    Transition(next,
               unwrap_or_default(enter(next)) \o unwrap_or_default(exit(self))
                   \o unwrap_or_default(invs))

transition_to(self, next, invs) ==
    Transition(next,
               unwrap_or_default(exit(self)) \o unwrap_or_default(invs)
                   \o unwrap_or_default(enter(next)))

-----------------------------------------------------------------------------
(* impl SubscribeState: one transition function per event *)

\* subscription change that restarts the handshake while receiving
subscription_changed_transition_rehandshake(self, channels, channel_groups) ==
    CASE self.name = "Unsubscribed" ->
            Some(transition_to(self,
                Handshaking(SubscribeInput_new(channels, channel_groups), None), None))
      [] self.name \in {"Handshaking", "HandshakeReconnecting", "HandshakeFailed",
                        "HandshakeStopped"} ->
            Some(transition_to(self,
                Handshaking(SubscribeInput_new(channels, channel_groups), self.cursor), None))
      [] self.name \in {"Receiving", "ReceiveReconnecting", "ReceiveFailed"} ->
            Some(transition_to(self,
                Handshaking(SubscribeInput_new(channels, channel_groups), Some(self.cursor)),
                None))
      [] self.name = "ReceiveStopped" ->
            Some(transition_to(self,
                ReceiveStopped(SubscribeInput_new(channels, channel_groups), self.cursor),
                None))

\* subscription change that resumes a stopped receive
subscription_changed_transition_resumes(self, channels, channel_groups) ==
    CASE self.name = "Unsubscribed" ->
            Some(transition_to(self,
                Handshaking(SubscribeInput_new(channels, channel_groups), None), None))
      [] self.name \in {"Handshaking", "HandshakeReconnecting", "HandshakeFailed",
                        "HandshakeStopped"} ->
            Some(transition_to(self,
                Handshaking(SubscribeInput_new(channels, channel_groups), self.cursor), None))
      [] self.name \in {"Receiving", "ReceiveReconnecting", "ReceiveStopped"} ->
            Some(transition_to(self,
                Receiving(SubscribeInput_new(channels, channel_groups), self.cursor), None))
      [] self.name = "ReceiveFailed" ->
            Some(transition_to(self,
                Handshaking(SubscribeInput_new(channels, channel_groups), Some(self.cursor)),
                None))

subscription_changed_transition(self, channels, channel_groups) ==
    CASE self.name = "Unsubscribed" ->
            Some(transition_to(self,
                Handshaking(SubscribeInput_new(channels, channel_groups), None), None))
      [] self.name \in {"Handshaking", "HandshakeReconnecting", "HandshakeFailed"} ->
            Some(transition_to(self,
                Handshaking(SubscribeInput_new(channels, channel_groups), self.cursor), None))
      [] self.name = "HandshakeStopped" ->
            Some(transition_to(self,
                Handshaking(SubscribeInput_new(channels, channel_groups), self.cursor), None))
      [] self.name \in {"Receiving", "ReceiveReconnecting"} ->
            Some(transition_to(self,
                Receiving(SubscribeInput_new(channels, channel_groups), self.cursor), None))
      [] self.name = "ReceiveFailed" ->
            Some(transition_to(self,
                Handshaking(SubscribeInput_new(channels, channel_groups), Some(self.cursor)),
                None))
      [] self.name = "ReceiveStopped" ->
            Some(transition_to(self,
                ReceiveStopped(SubscribeInput_new(channels, channel_groups), self.cursor),
                None))

\* restore in which the cursor of the event always wins
subscription_restored_transition_restore_wins(self, channels, channel_groups, restore_cursor) ==
    CASE self.name \in {"Unsubscribed", "Handshaking", "HandshakeReconnecting",
                        "HandshakeFailed", "HandshakeStopped", "ReceiveFailed"} ->
            Some(transition_to(self,
                Handshaking(SubscribeInput_new(channels, channel_groups),
                            Some(restore_cursor)), None))
      [] self.name \in {"Receiving", "ReceiveReconnecting"} ->
            Some(transition_to(self,
                Receiving(SubscribeInput_new(channels, channel_groups), restore_cursor),
                None))
      [] self.name = "ReceiveStopped" ->
            Some(transition_to(self,
                ReceiveStopped(SubscribeInput_new(channels, channel_groups), restore_cursor),
                None))

\* restore in which a failed receive resumes from the cursor it failed at
subscription_restored_transition_failure_cursor(self, channels, channel_groups, restore_cursor) ==
    CASE self.name = "Unsubscribed" ->
            Some(transition_to(self,
                Handshaking(SubscribeInput_new(channels, channel_groups),
                            Some(restore_cursor)), None))
      [] self.name \in {"Handshaking", "HandshakeReconnecting", "HandshakeFailed",
                        "HandshakeStopped"} ->
            Some(transition_to(self,
                Handshaking(SubscribeInput_new(channels, channel_groups),
                            Some(unwrap_or(self.cursor, restore_cursor))), None))
      [] self.name \in {"Receiving", "ReceiveReconnecting"} ->
            Some(transition_to(self,
                Receiving(SubscribeInput_new(channels, channel_groups), restore_cursor),
                None))
      [] self.name = "ReceiveFailed" ->
            Some(transition_to(self,
                Handshaking(SubscribeInput_new(channels, channel_groups),
                            Some(self.cursor)), None))
      [] self.name = "ReceiveStopped" ->
            Some(transition_to(self,
                ReceiveStopped(SubscribeInput_new(channels, channel_groups), restore_cursor),
                None))

\* restore in which a running receive keeps its cursor
subscription_restored_transition_keeps_cursor(self, channels, channel_groups, restore_cursor) ==
    CASE self.name = "Unsubscribed" ->
            Some(transition_to(self,
                Handshaking(SubscribeInput_new(channels, channel_groups),
                            Some(restore_cursor)), None))
      [] self.name \in {"Handshaking", "HandshakeReconnecting", "HandshakeFailed",
                        "HandshakeStopped"} ->
            Some(transition_to(self,
                Handshaking(SubscribeInput_new(channels, channel_groups),
                            Some(unwrap_or(self.cursor, restore_cursor))), None))
      [] self.name \in {"Receiving", "ReceiveReconnecting"} ->
            Some(transition_to(self,
                Receiving(SubscribeInput_new(channels, channel_groups), self.cursor),
                None))
      [] self.name = "ReceiveFailed" ->
            Some(transition_to(self,
                Handshaking(SubscribeInput_new(channels, channel_groups),
                            Some(restore_cursor)), None))
      [] self.name = "ReceiveStopped" ->
            Some(transition_to(self,
                ReceiveStopped(SubscribeInput_new(channels, channel_groups), restore_cursor),
                None))

subscription_restored_transition(self, channels, channel_groups, restore_cursor) ==
    CASE self.name = "Unsubscribed" ->
            Some(transition_to(self,
                Handshaking(SubscribeInput_new(channels, channel_groups),
                            Some(restore_cursor)), None))
      [] self.name \in {"Handshaking", "HandshakeReconnecting", "HandshakeFailed",
                        "HandshakeStopped"} ->
            Some(transition_to(self,
                Handshaking(SubscribeInput_new(channels, channel_groups),
                            Some(unwrap_or(self.cursor, restore_cursor))), None))
      [] self.name \in {"Receiving", "ReceiveReconnecting"} ->
            Some(transition_to(self,
                Receiving(SubscribeInput_new(channels, channel_groups), restore_cursor),
                None))
      [] self.name = "ReceiveFailed" ->
            Some(transition_to(self,
                Handshaking(SubscribeInput_new(channels, channel_groups),
                            Some(restore_cursor)), None))
      [] self.name = "ReceiveStopped" ->
            Some(transition_to(self,
                ReceiveStopped(SubscribeInput_new(channels, channel_groups), restore_cursor),
                None))

\* handshake success in which the cursor of the server always wins
\* a handshake success that is taken in Receiving as well
handshake_success_transition_when_receiving(self, next_cursor) ==
    IF self.name \in {"Handshaking", "HandshakeReconnecting"}
    THEN Some(transition_to(self,
                Receiving(self.input, unwrap_or(self.cursor, next_cursor)),
                Some(<<EmitStatus(Connected)>>)))
    ELSE IF self.name = "Receiving"
    THEN Some(transition_to(self,
                Receiving(self.input, self.cursor), Some(<<EmitStatus(Connected)>>)))
    ELSE None

handshake_success_transition_server_cursor(self, next_cursor) ==
    IF self.name \in {"Handshaking", "HandshakeReconnecting"}
    THEN Some(transition_to(self,
                Receiving(self.input, next_cursor), Some(<<EmitStatus(Connected)>>)))
    ELSE None

handshake_success_transition(self, next_cursor) ==
    IF self.name \in {"Handshaking", "HandshakeReconnecting"}
    THEN Some(transition_to(self,
                Receiving(self.input, unwrap_or(self.cursor, next_cursor)),
                Some(<<EmitStatus(Connected)>>)))
    ELSE None

\* handshake failure also handled while reconnecting
\* a handshake failure that starts the reconnection without the preserved cursor
handshake_failure_transition_forgets_cursor(self, reason) ==
    IF self.name = "Handshaking"
    THEN Some(transition_to(self, HandshakeReconnecting(self.input, None, 1, reason), None))
    ELSE None

handshake_failure_transition_while_reconnecting(self, reason) ==
    IF self.name \in {"Handshaking", "HandshakeReconnecting"}
    THEN Some(transition_to(self,
                HandshakeReconnecting(self.input, self.cursor, 1, reason), None))
    ELSE None

handshake_failure_transition(self, reason) ==
    IF self.name = "Handshaking"
    THEN Some(transition_to(self,
                HandshakeReconnecting(self.input, self.cursor, 1, reason), None))
    ELSE None

\* `attempts + 1` is a u8 addition: it panics on overflow in a build with overflow
\* checks and wraps in a build without
handshake_reconnect_failure_transition(self, reason, overflow_checks) ==
    IF self.name = "HandshakeReconnecting"
    THEN LET attempts == u8_overflowing_add(self.attempts, 1)
         IN  IF attempts.overflow /\ overflow_checks THEN Panic
             ELSE Some(transition_to(self,
                         HandshakeReconnecting(self.input, self.cursor, attempts.value,
                                               reason),
                         None))
    ELSE None

handshake_reconnect_give_up_transition(self, reason) ==
    IF self.name = "HandshakeReconnecting"
    THEN Some(transition_to(self,
                HandshakeFailed(self.input, self.cursor, reason),
                Some(<<EmitStatus(ConnectionError(reason))>>)))
    ELSE None

\* receive success that keeps the cursor of the state
receive_success_transition_keeps_cursor(self, cursor, messages) ==
    IF self.name \in {"Receiving", "ReceiveReconnecting"}
    THEN Some(transition_to(self,
                Receiving(self.input, self.cursor), Some(<<EmitMessages(messages)>>)))
    ELSE None

receive_success_transition(self, cursor, messages) ==
    IF self.name \in {"Receiving", "ReceiveReconnecting"}
    THEN Some(transition_to(self,
                Receiving(self.input, cursor), Some(<<EmitMessages(messages)>>)))
    ELSE None

receive_failure_transition(self, reason) ==
    IF self.name = "Receiving"
    THEN Some(transition_to(self,
                ReceiveReconnecting(self.input, self.cursor, 1, reason), None))
    ELSE None

receive_reconnect_failure_transition(self, reason, overflow_checks) ==
    IF self.name = "ReceiveReconnecting"
    THEN LET attempts == u8_overflowing_add(self.attempts, 1)
         IN  IF attempts.overflow /\ overflow_checks THEN Panic
             ELSE Some(transition_to(self,
                         ReceiveReconnecting(self.input, self.cursor, attempts.value,
                                             reason),
                         None))
    ELSE None

\* receive give-up that reports the failure as a connection error
receive_reconnect_give_up_transition_connection_error(self, reason) ==
    IF self.name = "ReceiveReconnecting"
    THEN Some(transition_to(self,
                ReceiveFailed(self.input, self.cursor, reason),
                Some(<<EmitStatus(ConnectionError(reason))>>)))
    ELSE None

receive_reconnect_give_up_transition(self, reason) ==
    IF self.name = "ReceiveReconnecting"
    THEN Some(transition_to(self,
                ReceiveFailed(self.input, self.cursor, reason),
                Some(<<EmitStatus(Disconnected)>>)))
    ELSE None

\* disconnect that reports Disconnected while the handshake is under way, too
disconnect_transition_always_emits(self) ==
    CASE self.name \in {"Handshaking", "HandshakeReconnecting"} ->
            Some(transition_to(self,
                HandshakeStopped(self.input, self.cursor),
                Some(<<EmitStatus(Disconnected)>>)))
      [] self.name \in {"Receiving", "ReceiveReconnecting"} ->
            Some(transition_to(self,
                ReceiveStopped(self.input, self.cursor),
                Some(<<EmitStatus(Disconnected)>>)))
      [] OTHER -> None

disconnect_transition(self) ==
    CASE self.name \in {"Handshaking", "HandshakeReconnecting"} ->
            Some(transition_to(self, HandshakeStopped(self.input, self.cursor), None))
      [] self.name \in {"Receiving", "ReceiveReconnecting"} ->
            Some(transition_to(self,
                ReceiveStopped(self.input, self.cursor),
                Some(<<EmitStatus(Disconnected)>>)))
      [] OTHER -> None

\* reconnect that starts over without the cursor of the stopped receive
reconnect_transition_drops_cursor(self) ==
    CASE self.name \in {"HandshakeStopped", "HandshakeFailed"} ->
            Some(transition_to(self, Handshaking(self.input, self.cursor), None))
      [] self.name \in {"ReceiveStopped", "ReceiveFailed"} ->
            Some(transition_to(self, Handshaking(self.input, None), None))
      [] OTHER -> None

\* reconnect that starts the handshake over without the preserved cursor
reconnect_transition_forgets_preserved_cursor(self) ==
    CASE self.name \in {"HandshakeStopped", "HandshakeFailed"} ->
            Some(transition_to(self, Handshaking(self.input, None), None))
      [] self.name \in {"ReceiveStopped", "ReceiveFailed"} ->
            Some(transition_to(self, Handshaking(self.input, Some(self.cursor)), None))
      [] OTHER -> None

reconnect_transition(self) ==
    CASE self.name \in {"HandshakeStopped", "HandshakeFailed"} ->
            Some(transition_to(self, Handshaking(self.input, self.cursor), None))
      [] self.name \in {"ReceiveStopped", "ReceiveFailed"} ->
            Some(transition_to(self, Handshaking(self.input, Some(self.cursor)), None))
      [] OTHER -> None

unsubscribe_all_transition(self) ==
    Some(transition_to(self, Unsubscribed, Some(<<EmitStatus(Disconnected)>>)))

\* State::transition: dispatch on the event; `overflow_checks` tells whether the
\* build has overflow checks
transition(self, ev, overflow_checks) ==
    CASE ev.name = "SubscriptionChanged" ->
            subscription_changed_transition(self, ev.channels, ev.channel_groups)
      [] ev.name = "SubscriptionRestored" ->
            subscription_restored_transition(self, ev.channels, ev.channel_groups, ev.cursor)
      [] ev.name \in {"HandshakeSuccess", "HandshakeReconnectSuccess"} ->
            handshake_success_transition(self, ev.cursor)
      [] ev.name = "HandshakeFailure" ->
            handshake_failure_transition(self, ev.reason)
      [] ev.name = "HandshakeReconnectFailure" ->
            handshake_reconnect_failure_transition(self, ev.reason, overflow_checks)
      [] ev.name = "HandshakeReconnectGiveUp" ->
            handshake_reconnect_give_up_transition(self, ev.reason)
      [] ev.name \in {"ReceiveSuccess", "ReceiveReconnectSuccess"} ->
            receive_success_transition(self, ev.cursor, ev.messages)
      [] ev.name = "ReceiveFailure" ->
            receive_failure_transition(self, ev.reason)
      [] ev.name = "ReceiveReconnectFailure" ->
            receive_reconnect_failure_transition(self, ev.reason, overflow_checks)
      [] ev.name = "ReceiveReconnectGiveUp" ->
            receive_reconnect_give_up_transition(self, ev.reason)
      [] ev.name = "Disconnect" -> disconnect_transition(self)
      [] ev.name = "Reconnect" -> reconnect_transition(self)
      [] ev.name = "UnsubscribeAll" -> unsubscribe_all_transition(self)

-----------------------------------------------------------------------------
(* RequestRetryPolicy *)

RequestRetryPolicy_None == [name |-> "None"]

Linear(delay, max_retry) == [name |-> "Linear", delay |-> delay, max_retry |-> max_retry]

Exponential(min_delay, max_delay, max_retry) ==
    [name |-> "Exponential", min_delay |-> min_delay, max_delay |-> max_delay,
     max_retry |-> max_retry]

Policies ==
    {RequestRetryPolicy_None, Exponential(2, 10, MaxRetry)}
        \cup {Linear(0, m) : m \in 0..MaxRetry}

\* a policy that stops one attempt early
retriable_below_max_retry(self, attempt, status_code) ==
    CASE status_code = 429 -> TRUE
      [] status_code \in 500..599 ->
            IF self.name \in {"Linear", "Exponential"}
            THEN attempt < self.max_retry
            ELSE FALSE
      [] OTHER -> FALSE

\* a policy that retries whatever the status
retriable_any_status(self, attempt, status_code) ==
    CASE status_code = 429 -> TRUE
      [] OTHER ->
            IF self.name \in {"Linear", "Exponential"}
            THEN attempt <= self.max_retry
            ELSE FALSE

\* RequestRetryPolicy::retriable(attempt, status_code)
retriable(self, attempt, status_code) ==
    CASE status_code = 429 -> TRUE
      [] status_code \in 500..599 ->
            IF self.name \in {"Linear", "Exponential"}
            THEN attempt <= self.max_retry
            ELSE FALSE
      [] OTHER -> FALSE

\* The effect asks `retry_policy.retriable(&attempt, Some(&reason))`: the policy
\* decides on the HTTP status the error carries.  An error without a status (a
\* network error) is not retried.
retriable_error(self, attempt, reason) ==
    IF reason.some /\ reason.value.kind = "API"
    THEN retriable(self, attempt, reason.value.status)
    ELSE FALSE

\* TransportResponse: status and the value of the "retry-after" header, if any
TransportResponse(status, retry_after) == [status |-> status, retry_after |-> retry_after]

\* str::parse::<u32> on the header values explored
parse_u32(value) ==
    CASE value = "150" -> Some(150)
      [] value = "0" -> Some(0)
      [] OTHER -> None

\* u32 values are kept as two 16-bit halves <<high, low>>
u32(n) == <<n \div 65536, n % 65536>>

\* product of two 16-bit values, as a u32
mul16(a, b) ==
    LET x == a * (b \div 256)
        y == a * (b % 256)
        low == (x % 256) * 256 + y
    IN  <<(x \div 256) + (low \div 65536), low % 65536>>

\* u32 multiplication: the wrapped product and whether it overflowed
overflowing_mul(a, b) ==
    LET ll == mul16(a[2], b[2])
        hl == mul16(a[1], b[2])
        lh == mul16(a[2], b[1])
        mid == ll[1] + hl[2] + lh[2]
    IN  [value |-> <<mid % 65536, ll[2]>>,
         overflow |-> (a[1] > 0 /\ b[1] > 0) \/ hl[1] > 0 \/ lh[1] > 0 \/ mid >= 65536]

\* u32::pow(exp), by repeated squaring: the wrapped power and whether one of the
\* multiplications overflowed; `acc` is the product so far
RECURSIVE overflowing_pow_from(_, _, _, _)
overflowing_pow_from(base, exp, acc, overflow) ==
    IF exp = 0 THEN [value |-> acc, overflow |-> overflow]
    ELSE IF exp = 1
    THEN LET prod == overflowing_mul(acc, base)
         IN  [value |-> prod.value, overflow |-> overflow \/ prod.overflow]
    ELSE LET square == overflowing_mul(base, base)
             next == IF exp % 2 = 1 THEN overflowing_mul(acc, base)
                     ELSE [value |-> acc, overflow |-> FALSE]
         IN  IF square.overflow \/ next.overflow
             THEN overflowing_pow_from(square.value, exp \div 2, next.value, TRUE)
             ELSE overflowing_pow_from(square.value, exp \div 2, next.value, overflow)

overflowing_pow(base, exp) == overflowing_pow_from(base, exp, u32(1), FALSE)

\* Ord::min of a u32 and a bound below 2^31
u32_min(a, bound) ==
    IF a[1] >= 32768 THEN bound
    ELSE IF a[1] * 65536 + a[2] < bound THEN a[1] * 65536 + a[2] ELSE bound

\* a delay that honours Retry-After only within max_retry
retry_delay_within_max_retry(self, attempt, response, overflow_checks) ==
    CASE response.status = 429 ->
            IF self.name # "None" /\ attempt <= self.max_retry /\ response.retry_after.some
            THEN parse_u32(response.retry_after.value)
            ELSE None
      [] OTHER -> None

\* RequestRetryPolicy::retry_delay(attempt, response); an overflow of the power
\* panics in a build with overflow checks and wraps in a build without
retry_delay(self, attempt, response, overflow_checks) ==
    CASE response.status = 429 ->
            IF self.name # "None" /\ response.retry_after.some
            THEN parse_u32(response.retry_after.value)
            ELSE None
      [] response.status \in 500..599 ->
            IF self.name = "None" THEN None
            ELSE IF self.name = "Linear"
            THEN (IF retriable(self, attempt, response.status)
                  THEN Some(self.delay) ELSE None)
            ELSE LET power == overflowing_pow(u32(self.min_delay), attempt)
                 IN  IF power.overflow /\ overflow_checks THEN Panic
                     ELSE IF retriable(self, attempt, response.status)
                     THEN Some(u32_min(power.value, self.max_delay))
                     ELSE None
      [] OTHER -> None

-----------------------------------------------------------------------------
(* Effects *)

\* Result<SubscribeResult, PubNubError> of the executor
Ok(cursor) == [ok |-> TRUE, cursor |-> cursor]

Err(error) == [ok |-> FALSE, error |-> error]

\* what the executor (the HTTP call) can return when it is not cancelled
ExecutorResults == {Ok(c) : c \in Cursors} \cup {Err(r) : r \in Reasons}

\* SubscriptionParams the executor is called with (the effect id is left out)
SubscriptionParams(channels, channel_groups, cursor, attempt, reason) ==
    [channels |-> channels, channel_groups |-> channel_groups, cursor |-> cursor,
     attempt |-> attempt, reason |-> reason]

\* effects::handshake_reconnection::execute: the calls of the executor
handshake_reconnection_execute_calls(input, attempt, reason, retry_policy) ==
    IF ~retriable_error(retry_policy, attempt, Some(reason))
    THEN <<>>
    ELSE IF input.is_empty
    THEN <<>>
    ELSE <<SubscriptionParams(input.channels, input.channel_groups, None, attempt,
                              Some(reason))>>

\* a reconnection that looks at the input before it asks the retry policy
handshake_reconnection_execute_empty_first(input, attempt, reason, retry_policy, result) ==
    IF input.is_empty
    THEN <<UnsubscribeAll>>
    ELSE IF ~retriable_error(retry_policy, attempt, Some(reason))
    THEN <<HandshakeReconnectGiveUp(reason)>>
    ELSE IF result.ok
    THEN <<HandshakeReconnectSuccess(result.cursor)>>
    ELSE IF result.error # EffectCanceled
    THEN <<HandshakeReconnectFailure(result.error)>>
    ELSE <<>>

\* a reconnection that reports its cancellation as a failure
handshake_reconnection_execute_cancel_fails(input, attempt, reason, retry_policy, result) ==
    IF ~retriable_error(retry_policy, attempt, Some(reason))
    THEN <<HandshakeReconnectGiveUp(reason)>>
    ELSE IF input.is_empty
    THEN <<UnsubscribeAll>>
    ELSE IF result.ok
    THEN <<HandshakeReconnectSuccess(result.cursor)>>
    ELSE <<HandshakeReconnectFailure(result.error)>>

\* effects::handshake_reconnection::execute
handshake_reconnection_execute(input, attempt, reason, retry_policy, result) ==
    IF ~retriable_error(retry_policy, attempt, Some(reason))
    THEN <<HandshakeReconnectGiveUp(reason)>>
    ELSE IF input.is_empty
    THEN <<UnsubscribeAll>>
    ELSE IF result.ok
    THEN <<HandshakeReconnectSuccess(result.cursor)>>
    ELSE IF result.error # EffectCanceled
    THEN <<HandshakeReconnectFailure(result.error)>>
    ELSE <<>>

\* the handshake effect: one handshake call for a non-empty input
handshake_execute(input, result) ==
    IF input.is_empty
    THEN <<UnsubscribeAll>>
    ELSE IF result.ok
    THEN <<HandshakeSuccess(result.cursor)>>
    ELSE IF result.error # EffectCanceled
    THEN <<HandshakeFailure(result.error)>>
    ELSE <<>>

-----------------------------------------------------------------------------
(* SubscriptionManager *)

\* Subscription: a listener with an id and the channels it cares about
Subscription(id, channels) == [id |-> id, channels |-> channels]

Subscriptions ==
    {Subscription(1, <<"ch1">>), Subscription(2, <<"ch1", "ch2">>), Subscription(3, <<>>)}

SubscriptionIds == {subscription.id : subscription \in Subscriptions}

\* Update: a real-time event received on a channel
Update(channel, payload) == [channel |-> channel, payload |-> payload]

Updates == {Update("ch1", "M1"), Update("ch2", "M2")}

\* Vec<Update> handed to notify_new_messages
UpdateBatches == {<<>>} \cup {<<u>> : u \in Updates} \cup {<<u, v>> : u, v \in Updates}

\* SubscribeStreamEvent
StreamStatus(status) == [kind |-> "Status", status |-> status]

StreamUpdate(update) == [kind |-> "Update", update |-> update]

\* no notify_update call, for any subscription
NotNotified == [id \in SubscriptionIds |-> <<>>]

\* SubscriptionManager::new: no subscriber
SubscriptionManager_new == [subscribers |-> <<>>, notified |-> NotNotified, call |-> None]

\* Subscription::notify_update for every subscription of `subscribers`, in order,
\* that is in `wanted`
RECURSIVE notify_update_each(_, _, _, _)
notify_update_each(streams, subscribers, stream_event, wanted) ==
    IF subscribers = <<>> THEN streams
    ELSE LET subscription == Head(subscribers)
         IN  notify_update_each(
                 IF subscription \in wanted
                 THEN [streams EXCEPT ![subscription.id] = Append(@, stream_event)]
                 ELSE streams,
                 Tail(subscribers), stream_event, wanted)

\* SubscriptionManager::notify_new_status
notify_new_status(streams, subscribers, status) ==
    notify_update_each(streams, subscribers, StreamStatus(status), Range(subscribers))

\* a subscription that takes the updates of every channel
contains_any_channel(subscription, update) == TRUE

\* subscription.channels.contains(&channel)
contains_channel(subscription, update) == update.channel \in Range(subscription.channels)

\* SubscriptionManager::notify_new_messages
RECURSIVE notify_new_messages(_, _, _)
notify_new_messages(streams, subscribers, messages) ==
    IF messages = <<>> THEN streams
    ELSE notify_new_messages(
             notify_update_each(streams, subscribers, StreamUpdate(Head(messages)),
                                {subscription \in Range(subscribers) :
                                    contains_channel(subscription, Head(messages))}),
             subscribers, Tail(messages))

\* SubscriptionManager::register
register(subscribers, subscription) == Append(subscribers, subscription)

\* a removal that drops the last element, whatever the position
swap_remove_drops_last(vec, position) == SubSeq(vec, 1, Len(vec) - 1)

\* Vec::swap_remove: the last element takes the place of the removed one
swap_remove(vec, position) ==
    IF position = Len(vec) THEN SubSeq(vec, 1, Len(vec) - 1)
    ELSE [i \in 1..(Len(vec) - 1) |-> IF i = position THEN vec[Len(vec)] ELSE vec[i]]

\* SubscriptionManager::unregister
unregister(subscribers, subscription) ==
    LET positions == {i \in 1..Len(subscribers) : subscribers[i].id = subscription.id}
    IN  IF positions = {} THEN subscribers
        ELSE swap_remove(subscribers, CHOOSE i \in positions : \A j \in positions : i <= j)

-----------------------------------------------------------------------------
(* Presence engine: states, events and effects *)

\* at most this many presence effects are in flight
MaxPresenceEffects == 2

\* channels the user is present on
PresenceInputs == {{"ch1"}, {"ch1", "ch2"}}

(* PresenceState *)

Inactive == [name |-> "Inactive"]

Heartbeating(input) == [name |-> "Heartbeating", input |-> input]

HeartbeatCooldown(input) == [name |-> "HeartbeatCooldown", input |-> input]

HeartbeatReconnecting(input, attempts, reason) ==
    [name |-> "HeartbeatReconnecting", input |-> input, attempts |-> attempts,
     reason |-> reason]

HeartbeatFailed(input, reason) ==
    [name |-> "HeartbeatFailed", input |-> input, reason |-> reason]

HeartbeatStopped(input) == [name |-> "HeartbeatStopped", input |-> input]

(* presence events *)

Joined(input) == [name |-> "Joined", input |-> input]

LeftAll == [name |-> "LeftAll"]

HeartbeatSuccess == [name |-> "HeartbeatSuccess"]

HeartbeatFailure(reason) == [name |-> "HeartbeatFailure", reason |-> reason]

HeartbeatGiveUp(reason) == [name |-> "HeartbeatGiveUp", reason |-> reason]

TimesUp == [name |-> "TimesUp"]

(* PresenceEffect, and the invocations that start or cancel one *)

Heartbeat(input) == [name |-> "Heartbeat", input |-> input]

DelayedHeartbeat(input, attempts, reason) ==
    [name |-> "DelayedHeartbeat", input |-> input, attempts |-> attempts,
     reason |-> reason]

Leave(input) == [name |-> "Leave", input |-> input]

Wait(input) == [name |-> "Wait", input |-> input]

CancelDelayedHeartbeat == [name |-> "CancelDelayedHeartbeat"]

CancelWait == [name |-> "CancelWait"]

\* Effect::id
PresenceEffect_id(self) ==
    CASE self.name = "Heartbeat" -> "HEARTBEAT"
      [] self.name = "DelayedHeartbeat" -> "DELAYED_HEARTBEAT"
      [] self.name = "Leave" -> "LEAVE"
      [] self.name = "Wait" -> "WAIT"

\* cancel() that cannot cancel any effect
PresenceEffect_cancel_nothing(self) == <<>>

\* Effect::cancel: what the effect sends on the cancellation channel
PresenceEffect_cancel(self) ==
    IF self.name \in {"DelayedHeartbeat", "Wait"}
    THEN <<PresenceEffect_id(self)>>
    ELSE <<>>

\* Effect::run for Leave: the events the effect ends with
PresenceEffect_run_Leave(self) == <<>>

\* Effect::run for Leave: the calls of the leave executor, each with the input it
\* is called for
PresenceEffect_run_Leave_calls(self) == <<>>

\* the heartbeat effects: give up when the policy does not allow the attempt,
\* else one heartbeat call
heartbeat_execute(input, attempts, reason, retry_policy, result) ==
    IF retry_policy.some /\ ~retriable_error(retry_policy.value, attempts, reason)
    THEN <<HeartbeatGiveUp(reason.value)>>
    ELSE IF result.ok
    THEN <<HeartbeatSuccess>>
    ELSE IF result.error # EffectCanceled
    THEN <<HeartbeatFailure(result.error)>>
    ELSE <<>>

\* the wait effect: the heartbeat interval elapsed
wait_execute == <<TimesUp>>

(* presence state machine *)

presence_enter(self) ==
    CASE self.name = "Heartbeating" -> <<Heartbeat(self.input)>>
      [] self.name = "HeartbeatCooldown" -> <<Wait(self.input)>>
      [] self.name = "HeartbeatReconnecting" ->
            <<DelayedHeartbeat(self.input, self.attempts, self.reason)>>
      [] OTHER -> <<>>

presence_exit(self) ==
    CASE self.name = "HeartbeatCooldown" -> <<CancelWait>>
      [] self.name = "HeartbeatReconnecting" -> <<CancelDelayedHeartbeat>>
      [] OTHER -> <<>>

presence_transition_to(self, next, invs) ==
    Transition(next, presence_exit(self) \o invs \o presence_enter(next))

presence_transition(self, ev) ==
    CASE ev.name = "Joined" ->
            IF self.name = "HeartbeatStopped"
            THEN Some(presence_transition_to(self, HeartbeatStopped(ev.input), <<>>))
            ELSE Some(presence_transition_to(self, Heartbeating(ev.input), <<>>))
      [] ev.name = "LeftAll" ->
            IF self.name = "Inactive" THEN None
            ELSE Some(presence_transition_to(self, Inactive, <<Leave(self.input)>>))
      [] ev.name = "HeartbeatSuccess" ->
            IF self.name \in {"Heartbeating", "HeartbeatReconnecting"}
            THEN Some(presence_transition_to(self, HeartbeatCooldown(self.input), <<>>))
            ELSE None
      [] ev.name = "HeartbeatFailure" ->
            IF self.name = "Heartbeating"
            THEN Some(presence_transition_to(self,
                        HeartbeatReconnecting(self.input, 1, ev.reason), <<>>))
            ELSE IF self.name = "HeartbeatReconnecting"
            THEN Some(presence_transition_to(self,
                        HeartbeatReconnecting(self.input, self.attempts + 1, ev.reason),
                        <<>>))
            ELSE None
      [] ev.name = "HeartbeatGiveUp" ->
            IF self.name = "HeartbeatReconnecting"
            THEN Some(presence_transition_to(self,
                        HeartbeatFailed(self.input, ev.reason), <<>>))
            ELSE None
      [] ev.name = "TimesUp" ->
            IF self.name = "HeartbeatCooldown"
            THEN Some(presence_transition_to(self, Heartbeating(self.input), <<>>))
            ELSE None
      [] ev.name = "Disconnect" ->
            IF self.name \in {"Heartbeating", "HeartbeatCooldown", "HeartbeatReconnecting",
                              "HeartbeatFailed"}
            THEN Some(presence_transition_to(self, HeartbeatStopped(self.input), <<>>))
            ELSE None
      [] ev.name = "Reconnect" ->
            IF self.name \in {"HeartbeatStopped", "HeartbeatFailed"}
            THEN Some(presence_transition_to(self, Heartbeating(self.input), <<>>))
            ELSE None

\* the id of the effect a presence cancel invocation names
PresenceCancelTarget(name) ==
    CASE name = "CancelWait" -> "WAIT"
      [] name = "CancelDelayedHeartbeat" -> "DELAYED_HEARTBEAT"

\* the running effect a cancel invocation is for: the first one with the id
PresenceTargets(effects, id) ==
    {i \in 1..Len(effects) : PresenceEffect_id(effects[i]) = id}

\* the presence dispatcher: a cancel invocation calls cancel() of the in-flight
\* effect it names, which stops being managed once it was told to abort; a start
\* invocation spawns the effect.  `flight` is [effects, channel].
RECURSIVE presence_dispatch(_, _)
presence_dispatch(flight, invs) ==
    IF invs = <<>> THEN flight
    ELSE LET inv == Head(invs)
             targets == IF inv.name \in {"CancelWait", "CancelDelayedHeartbeat"}
                        THEN PresenceTargets(flight.effects, PresenceCancelTarget(inv.name))
                        ELSE {}
             target == CHOOSE i \in targets : \A j \in targets : i <= j
         IN  presence_dispatch(
                 IF inv.name \in {"CancelWait", "CancelDelayedHeartbeat"}
                 THEN (IF targets = {} THEN flight
                       ELSE [effects |->
                                 IF PresenceEffect_cancel(flight.effects[target]) = <<>>
                                 THEN flight.effects
                                 ELSE SubSeq(flight.effects, 1, target - 1)
                                          \o SubSeq(flight.effects, target + 1,
                                                    Len(flight.effects)),
                             channel |->
                                 flight.channel
                                     \o PresenceEffect_cancel(flight.effects[target])])
                 ELSE [effects |-> Append(flight.effects, inv), channel |-> flight.channel],
                 Tail(invs))

\* the presence engine before the first event
PresenceEngine_new ==
    [state |-> Inactive, effects |-> <<>>, channel |-> <<>>, event |-> None,
     previous |-> Inactive, invocations |-> <<>>, left |-> None]

-----------------------------------------------------------------------------
(* EventEngine and effect dispatcher *)

\* the effect a cancel invocation aborts
CancelTarget(name) ==
    CASE name = "CancelHandshake" -> "Handshake"
      [] name = "CancelHandshakeReconnect" -> "HandshakeReconnect"
      [] name = "CancelReceive" -> "Receive"
      [] name = "CancelReceiveReconnect" -> "ReceiveReconnect"

SelectNot(seq, name) == SelectSeq(seq, LAMBDA inv : inv.name # name)

\* EffectDispatcher: the invocations are handled in order; a cancel invocation
\* aborts the in-flight effect it names, a start invocation spawns the effect,
\* EmitStatus / EmitMessages complete at once.
RECURSIVE dispatch(_, _)
dispatch(inflight, invs) ==
    IF invs = <<>> THEN inflight
    ELSE LET inv == Head(invs)
         IN  dispatch(CASE inv.name \in CancelNames ->
                              SelectNot(inflight, CancelTarget(inv.name))
                        [] inv.name \in StartNames -> Append(inflight, inv)
                        [] OTHER -> inflight,
                      Tail(invs))

\* the builds that differ on a transition: with and without overflow checks where
\* the transition overflows, any one build where it does not
Builds(self, ev) == IF transition(self, ev, TRUE) = Panic THEN BOOLEAN ELSE {FALSE}

\* EventEngine::process, with `inflight` the effects in flight, in a build with or
\* without overflow checks; a panic of the transition ends the engine
EventEngine_process(inflight, ev) ==
    /\ state # Panic
    /\ \E overflow_checks \in Builds(state, ev) :
        LET tr == transition(state, ev, overflow_checks)
        IN  /\ event' = Some(ev)
            /\ previous' = state
            /\ IF tr = Panic
               THEN /\ state' = Panic
                    /\ invocations' = <<>>
                    /\ running' = inflight
               ELSE IF tr.some
               THEN /\ state' = tr.value.state
                    /\ invocations' = tr.value.invocations
                    /\ running' = dispatch(inflight, tr.value.invocations)
               ELSE /\ state' = state
                    /\ invocations' = <<>>
                    /\ running' = inflight
            /\ UNCHANGED <<policy, retry, manager, presence>>

\* process() of an event that did not wait in the queue
process_with(inflight, ev) == EventEngine_process(inflight, ev) /\ UNCHANGED queue

process(ev) == process_with(running, ev)

\* the engine is not driven past MaxAttempts retry attempts
WithinBounds(ev) ==
    ev.name \in {"HandshakeReconnectFailure", "ReceiveReconnectFailure"}
        /\ state.name \in {"HandshakeReconnecting", "ReceiveReconnecting"}
        => state.attempts < MaxAttempts

Init ==
    /\ state = Unsubscribed
    /\ policy = RequestRetryPolicy_None
    /\ event = None
    /\ previous = Unsubscribed
    /\ invocations = <<>>
    /\ running = <<>>
    /\ lastRun = None
    /\ retry = None
    /\ manager = SubscriptionManager_new
    /\ presence = PresenceEngine_new
    /\ queue = <<>>

(* Application events *)

Subscribe ==
    \E c \in ChannelLists, g \in GroupLists :
        /\ process(SubscriptionChanged(c, g))
        /\ lastRun' = None

Restore ==
    \E c \in ChannelLists, g \in GroupLists, cur \in Cursors :
        /\ process(SubscriptionRestored(c, g, cur))
        /\ lastRun' = None

DisconnectAll ==
    /\ process(Disconnect)
    /\ lastRun' = None

ReconnectAll ==
    /\ process(Reconnect)
    /\ lastRun' = None

Unsubscribe ==
    /\ process(UnsubscribeAll)
    /\ lastRun' = None

AppEvent == Subscribe \/ Restore \/ DisconnectAll \/ ReconnectAll \/ Unsubscribe

(* Events of effects, handed to process() in any state *)

EffectEvents ==
    {HandshakeSuccess(c) : c \in Cursors}
        \cup {HandshakeReconnectSuccess(c) : c \in Cursors}
        \cup {HandshakeFailure(r) : r \in Reasons}
        \cup {HandshakeReconnectFailure(r) : r \in Reasons}
        \cup {HandshakeReconnectGiveUp(r) : r \in Reasons}
        \cup {ReceiveSuccess(c, m) : c \in Cursors, m \in MessageBatches}
        \cup {ReceiveReconnectSuccess(c, m) : c \in Cursors, m \in MessageBatches}
        \cup {ReceiveFailure(r) : r \in Reasons}
        \cup {ReceiveReconnectFailure(r) : r \in Reasons}
        \cup {ReceiveReconnectGiveUp(r) : r \in Reasons}

EffectEvent ==
    \E ev \in EffectEvents :
        /\ WithinBounds(ev)
        /\ process(ev)
        /\ UNCHANGED lastRun

Next == AppEvent \/ EffectEvent

Spec == Init /\ [][Next]_vars

-----------------------------------------------------------------------------
(* The engine with its effects: events of effects come from the effects only *)

RunInit ==
    /\ state = Unsubscribed
    /\ policy \in Policies
    /\ event = None
    /\ previous = Unsubscribed
    /\ invocations = <<>>
    /\ running = <<>>
    /\ lastRun = None
    /\ retry = None
    /\ manager = SubscriptionManager_new
    /\ presence = PresenceEngine_new
    /\ queue = <<>>

\* an effect completes with `events`: they are processed in the order produced
Complete(inv, result, events) ==
    /\ lastRun' = Some([invocation |-> inv, result |-> result, events |-> events])
    /\ IF events = <<>>
       THEN /\ running' = SelectSeq(running, LAMBDA other : other # inv)
            /\ UNCHANGED <<state, policy, event, previous, invocations, retry, manager,
                           presence, queue>>
       ELSE /\ WithinBounds(events[1])
            /\ process_with(SelectSeq(running, LAMBDA other : other # inv), events[1])

\* SubscribeEffect::Handshake runs to completion
RunHandshake ==
    \E i \in 1..Len(running), result \in ExecutorResults :
        /\ running[i].name = "Handshake"
        /\ Complete(running[i], result, handshake_execute(running[i].input, result))

\* SubscribeEffect::HandshakeReconnect runs to completion
RunHandshakeReconnect ==
    \E i \in 1..Len(running), result \in ExecutorResults \cup {Err(EffectCanceled)} :
        /\ running[i].name = "HandshakeReconnect"
        /\ Complete(running[i], result,
                    handshake_reconnection_execute(running[i].input, running[i].attempts,
                                                   running[i].reason, policy, result))

RunNext == AppEvent \/ RunHandshake \/ RunHandshakeReconnect

RunSpec == RunInit /\ [][RunNext]_vars

-----------------------------------------------------------------------------
(* The handshake reconnection effect on its own, applied to any input *)

EffectInit ==
    /\ state = Unsubscribed
    /\ policy \in Policies
    /\ event = None
    /\ previous = Unsubscribed
    /\ invocations = <<>>
    /\ running = <<>>
    /\ lastRun = None
    /\ retry = None
    /\ manager = SubscriptionManager_new
    /\ presence = PresenceEngine_new
    /\ queue = <<>>

\* execute for an input, an attempt and a reason; `result` is what the executor
\* returns if it is called
ExecuteHandshakeReconnect ==
    \E input \in Inputs, attempt \in 0..(MaxRetry + 1), reason \in Reasons,
       result \in ExecutorResults \cup {Err(EffectCanceled)} :
        /\ lastRun' =
              Some([invocation |-> HandshakeReconnect(input, None, attempt, reason),
                    result |-> result,
                    events |-> handshake_reconnection_execute(input, attempt, reason,
                                                              policy, result),
                    calls |-> handshake_reconnection_execute_calls(input, attempt, reason,
                                                                   policy)])
        /\ UNCHANGED <<state, policy, event, previous, invocations, running, retry, manager,
                       presence, queue>>

EffectNext == ExecuteHandshakeReconnect

EffectSpec == EffectInit /\ [][EffectNext]_vars

-----------------------------------------------------------------------------
(* The engine under failures without end: the count of attempts over its whole
   u8 range *)

AttemptsInit ==
    /\ state = Unsubscribed
    /\ policy = RequestRetryPolicy_None
    /\ event = None
    /\ previous = Unsubscribed
    /\ invocations = <<>>
    /\ running = <<>>
    /\ lastRun = None
    /\ retry = None
    /\ manager = SubscriptionManager_new
    /\ presence = PresenceEngine_new
    /\ queue = <<>>

\* the application subscribes
AttemptsSubscribe ==
    /\ state = Unsubscribed
    /\ process(SubscriptionChanged(Some(<<"ch1", "ch1">>), None))
    /\ UNCHANGED lastRun

\* the handshake succeeds
AttemptsConnect ==
    \E cursor \in Cursors :
        /\ state # Panic
        /\ state.name \in {"Handshaking", "HandshakeReconnecting"}
        /\ process(HandshakeSuccess(cursor))
        /\ UNCHANGED lastRun

\* the effect of the state fails
AttemptsFailure ==
    \E reason \in Reasons :
        /\ state # Panic
        /\ \/ state.name = "Handshaking" /\ process(HandshakeFailure(reason))
           \/ state.name = "HandshakeReconnecting"
                /\ process(HandshakeReconnectFailure(reason))
           \/ state.name = "Receiving" /\ process(ReceiveFailure(reason))
           \/ state.name = "ReceiveReconnecting"
                /\ process(ReceiveReconnectFailure(reason))
        /\ UNCHANGED lastRun

AttemptsNext == AttemptsSubscribe \/ AttemptsConnect \/ AttemptsFailure

AttemptsSpec == AttemptsInit /\ [][AttemptsNext]_vars

-----------------------------------------------------------------------------
(* The retry policy on its own: retriable and retry_delay applied to any input *)

RetryPolicies ==
    Policies \cup {Linear(5, 1), Exponential(3, 20, MaxRetry),
                   Exponential(65536, 100, MaxRetry)}

\* u8 attempt numbers explored
RetryAttempts == 0..(MaxRetry + 1) \cup {32, 255}

\* responses explored: client error, too many requests, server errors; without
\* Retry-After, with an integer one, with one that is not a number
Responses ==
    {TransportResponse(status, retry_after) :
        status \in {400, 429, 500, 599},
        retry_after \in {None, Some("150"), Some("soon")}}

RetryInit ==
    /\ state = Unsubscribed
    /\ policy \in RetryPolicies
    /\ event = None
    /\ previous = Unsubscribed
    /\ invocations = <<>>
    /\ running = <<>>
    /\ lastRun = None
    /\ retry = None
    /\ manager = SubscriptionManager_new
    /\ presence = PresenceEngine_new
    /\ queue = <<>>

\* retriable and retry_delay for a response
RetryResponse ==
    \E attempt \in RetryAttempts, response \in Responses, overflow_checks \in BOOLEAN :
        /\ retry' = Some([call |-> "response", attempt |-> attempt, response |-> response,
                          overflow_checks |-> overflow_checks,
                          retriable |-> retriable(policy, attempt, response.status),
                          delay |-> retry_delay(policy, attempt, response,
                                                overflow_checks)])
        /\ UNCHANGED <<state, policy, event, previous, invocations, running, lastRun, manager,
                       presence, queue>>

\* retriable for an error of an effect
RetryError ==
    \E attempt \in RetryAttempts, reason \in Reasons :
        /\ retry' = Some([call |-> "error", attempt |-> attempt, reason |-> reason,
                          retriable |-> retriable_error(policy, attempt, Some(reason))])
        /\ UNCHANGED <<state, policy, event, previous, invocations, running, lastRun, manager,
                       presence, queue>>

RetryNext == RetryResponse \/ RetryError

RetrySpec == RetryInit /\ [][RetryNext]_vars

-----------------------------------------------------------------------------
(* The subscription manager on its own *)

\* at most this many subscriptions are registered
MaxSubscribers == 3

ManagerInit ==
    /\ state = Unsubscribed
    /\ policy = RequestRetryPolicy_None
    /\ event = None
    /\ previous = Unsubscribed
    /\ invocations = <<>>
    /\ running = <<>>
    /\ lastRun = None
    /\ retry = None
    /\ manager = SubscriptionManager_new
    /\ presence = PresenceEngine_new
    /\ queue = <<>>

EngineUnchanged ==
    UNCHANGED <<state, policy, event, previous, invocations, running, lastRun, retry,
                presence, queue>>

Register ==
    \E subscription \in Subscriptions :
        /\ Len(manager.subscribers) < MaxSubscribers
        /\ manager' = [subscribers |-> register(manager.subscribers, subscription),
                       notified |-> NotNotified,
                       call |-> Some([name |-> "register", subscription |-> subscription,
                                      subscribers |-> manager.subscribers])]
        /\ EngineUnchanged

Unregister ==
    \E subscription \in Subscriptions :
        /\ manager' = [subscribers |-> unregister(manager.subscribers, subscription),
                       notified |-> NotNotified,
                       call |-> Some([name |-> "unregister", subscription |-> subscription,
                                      subscribers |-> manager.subscribers])]
        /\ EngineUnchanged

NotifyStatus ==
    \E status \in {Connected, Disconnected} :
        /\ manager' = [manager EXCEPT
                          !.notified = notify_new_status(NotNotified, manager.subscribers,
                                                         status),
                          !.call = Some([name |-> "notify_new_status", status |-> status])]
        /\ EngineUnchanged

NotifyMessages ==
    \E messages \in UpdateBatches :
        /\ manager' = [manager EXCEPT
                          !.notified = notify_new_messages(NotNotified, manager.subscribers,
                                                           messages),
                          !.call = Some([name |-> "notify_new_messages",
                                         messages |-> messages])]
        /\ EngineUnchanged

ManagerNext == Register \/ Unregister \/ NotifyStatus \/ NotifyMessages

ManagerSpec == ManagerInit /\ [][ManagerNext]_vars

-----------------------------------------------------------------------------
(* The presence engine with its effects *)

PresenceInit ==
    /\ state = Unsubscribed
    /\ policy \in {RequestRetryPolicy_None, Linear(0, 1)}
    /\ event = None
    /\ previous = Unsubscribed
    /\ invocations = <<>>
    /\ running = <<>>
    /\ lastRun = None
    /\ retry = None
    /\ manager = SubscriptionManager_new
    /\ presence = PresenceEngine_new
    /\ queue = <<>>

\* what the heartbeat call can return
HeartbeatResults == {Ok(None), Err(API(500))}

\* process of the presence engine, with `flight` the effects in flight and the
\* cancellation channel: the engine after the event
presence_process(flight, ev) ==
    LET tr == presence_transition(presence.state, ev)
        next == IF tr.some
                THEN presence_dispatch(flight, tr.value.invocations)
                ELSE flight
    IN  [state |-> IF tr.some THEN tr.value.state ELSE presence.state,
         effects |-> next.effects,
         channel |-> next.channel,
         event |-> Some(ev),
         previous |-> presence.state,
         invocations |-> IF tr.some THEN tr.value.invocations ELSE <<>>,
         left |-> None]

\* the presence engine is explored up to MaxPresenceEffects effects in flight and
\* MaxAttempts heartbeat attempts
PresenceWithinBounds(next) ==
    /\ Len(next.effects) <= MaxPresenceEffects
    /\ Len(next.channel) <= MaxPresenceEffects
    /\ next.state.name = "HeartbeatReconnecting" => next.state.attempts <= MaxAttempts

PresenceUnchanged ==
    UNCHANGED <<state, policy, event, previous, invocations, running, lastRun, retry,
                manager, queue>>

PresenceFlight == [effects |-> presence.effects, channel |-> presence.channel]

PresenceJoin ==
    \E input \in PresenceInputs :
        /\ presence' = presence_process(PresenceFlight, Joined(input))
        /\ PresenceWithinBounds(presence')
        /\ PresenceUnchanged

PresenceLeftAll ==
    /\ presence' = presence_process(PresenceFlight, LeftAll)
    /\ PresenceWithinBounds(presence')
    /\ PresenceUnchanged

PresenceDisconnect ==
    /\ presence' = presence_process(PresenceFlight, Disconnect)
    /\ PresenceWithinBounds(presence')
    /\ PresenceUnchanged

PresenceReconnect ==
    /\ presence' = presence_process(PresenceFlight, Reconnect)
    /\ PresenceWithinBounds(presence')
    /\ PresenceUnchanged

\* the engine after the effect at position i of the effects in flight ended with
\* `events`
PresenceComplete(i, events) ==
    LET rest == [effects |-> SubSeq(presence.effects, 1, i - 1)
                                 \o SubSeq(presence.effects, i + 1, Len(presence.effects)),
                 channel |-> presence.channel]
    IN  IF events = <<>>
        THEN [presence EXCEPT !.effects = rest.effects, !.event = None,
                              !.previous = presence.state, !.invocations = <<>>,
                              !.left = None]
        ELSE presence_process(rest, events[1])

RunPresenceHeartbeat ==
    \E i \in 1..Len(presence.effects), result \in HeartbeatResults :
        /\ presence.effects[i].name = "Heartbeat"
        /\ presence' = PresenceComplete(i, heartbeat_execute(presence.effects[i].input, 0,
                                                             None, None, result))
        /\ PresenceWithinBounds(presence')
        /\ PresenceUnchanged

RunDelayedHeartbeat ==
    \E i \in 1..Len(presence.effects), result \in HeartbeatResults :
        /\ presence.effects[i].name = "DelayedHeartbeat"
        /\ presence' = PresenceComplete(i, heartbeat_execute(presence.effects[i].input,
                                                             presence.effects[i].attempts,
                                                             Some(presence.effects[i].reason),
                                                             Some(policy), result))
        /\ PresenceWithinBounds(presence')
        /\ PresenceUnchanged

RunWait ==
    \E i \in 1..Len(presence.effects) :
        /\ presence.effects[i].name = "Wait"
        /\ presence' = PresenceComplete(i, wait_execute)
        /\ PresenceWithinBounds(presence')
        /\ PresenceUnchanged

RunLeave ==
    \E i \in 1..Len(presence.effects) :
        /\ presence.effects[i].name = "Leave"
        /\ presence' =
              [PresenceComplete(i, PresenceEffect_run_Leave(presence.effects[i]))
                  EXCEPT !.left =
                      Some([effect |-> presence.effects[i],
                            calls |-> PresenceEffect_run_Leave_calls(presence.effects[i])])]
        /\ PresenceUnchanged

\* the task of an effect that was told to abort takes its id off the channel
PresenceAborted ==
    /\ presence.channel # <<>>
    /\ presence' = [presence EXCEPT !.channel = Tail(@), !.left = None, !.event = None,
                                    !.previous = presence.state, !.invocations = <<>>]
    /\ PresenceUnchanged

PresenceNext ==
    \/ PresenceJoin \/ PresenceLeftAll \/ PresenceDisconnect \/ PresenceReconnect
    \/ RunPresenceHeartbeat \/ RunDelayedHeartbeat \/ RunWait \/ RunLeave \/ PresenceAborted

PresenceSpec == PresenceInit /\ [][PresenceNext]_vars

-----------------------------------------------------------------------------
(* Properties of the transitions, read off the last process() call *)

\* the last process() call found a transition for its event
Transitioned ==
    /\ event.some
    /\ \A overflow_checks \in BOOLEAN :
           transition(previous, event.value, overflow_checks) # None

\* the last process() call handled an event named evName in a state named stName
Processed(stNames, evNames) ==
    /\ event.some
    /\ event.value.name \in evNames
    /\ previous.name \in stNames

Count(seq, Test(_)) == Cardinality({i \in 1..Len(seq) : Test(seq[i])})

IsStart(inv) == inv.name \in StartNames

IsCancel(inv) == inv.name \in CancelNames

IsEmitStatus(inv) == inv.name = "EmitStatus"

IsEmitMessages(inv) == inv.name = "EmitMessages"

\* events of the transition table, per state
EverywhereHandled == {"SubscriptionChanged", "SubscriptionRestored", "UnsubscribeAll"}

HandledEvents(stName) ==
    EverywhereHandled \cup
    CASE stName = "Handshaking" ->
            {"HandshakeSuccess", "HandshakeReconnectSuccess", "HandshakeFailure",
             "Disconnect"}
      [] stName = "HandshakeReconnecting" ->
            {"HandshakeSuccess", "HandshakeReconnectSuccess", "HandshakeReconnectFailure",
             "HandshakeReconnectGiveUp", "Disconnect"}
      [] stName = "Receiving" ->
            {"ReceiveSuccess", "ReceiveReconnectSuccess", "ReceiveFailure", "Disconnect"}
      [] stName = "ReceiveReconnecting" ->
            {"ReceiveSuccess", "ReceiveReconnectSuccess", "ReceiveReconnectFailure",
             "ReceiveReconnectGiveUp", "Disconnect"}
      [] stName \in {"HandshakeStopped", "HandshakeFailed", "ReceiveStopped",
                     "ReceiveFailed"} -> {"Reconnect"}
      [] OTHER -> {}

\* C1: an event the state does not handle has no transition; processing it leaves
\* the state as it was, dispatches no invocation and leaves the effect of the state
\* running.
C1_UnhandledEventIsNoOp ==
    event.some /\ event.value.name \notin HandledEvents(previous.name)
        => /\ \A overflow_checks \in BOOLEAN :
                  transition(previous, event.value, overflow_checks) = None
           /\ state = previous
           /\ invocations = <<>>
           /\ running = unwrap_or_default(enter(previous))

C1_Witness ==
    /\ Processed({"HandshakeReconnecting"}, {"HandshakeFailure"})
    /\ state = previous
    /\ running # <<>>

\* C2: in Unsubscribed only SubscriptionChanged and SubscriptionRestored have a
\* transition (to Handshaking with no cursor, respectively the cursor of the event);
\* every other event, UnsubscribeAll included, changes nothing and dispatches nothing.
C2_UnsubscribedOnlySubscribes ==
    /\ Processed({"Unsubscribed"}, {"SubscriptionChanged"})
        => state = Handshaking(
                      SubscribeInput_new(event.value.channels, event.value.channel_groups),
                      None)
    /\ Processed({"Unsubscribed"}, {"SubscriptionRestored"})
        => state = Handshaking(
                      SubscribeInput_new(event.value.channels, event.value.channel_groups),
                      Some(event.value.cursor))
    /\ event.some /\ previous.name = "Unsubscribed"
            /\ event.value.name \notin {"SubscriptionChanged", "SubscriptionRestored"}
        => state = previous /\ invocations = <<>>

\* C3: a handshake success (of the handshake, or of the handshake reconnection)
\* leads to Receiving with the same input, with the cursor the state preserved if
\* there is one and the cursor of the server otherwise, and emits Connected once.
C3_HandshakeSuccessToReceiving ==
    (Processed({"Handshaking"}, {"HandshakeSuccess"})
        \/ Processed({"HandshakeReconnecting"}, {"HandshakeReconnectSuccess"}))
        => /\ state = Receiving(previous.input,
                                IF previous.cursor.some THEN previous.cursor.value
                                ELSE event.value.cursor)
           /\ Count(invocations, IsEmitStatus) = 1
           /\ Count(invocations, LAMBDA inv : inv = EmitStatus(Connected)) = 1

C3_Witness ==
    /\ Processed({"HandshakeReconnecting"}, {"HandshakeReconnectSuccess"})
    /\ previous.cursor.some
    /\ previous.cursor.value # event.value.cursor
    /\ state.name = "Receiving"
    /\ state.cursor = previous.cursor.value

\* C4: a receive success in Receiving stays in Receiving with the same input and the
\* cursor of the event, whatever the cursor was, and emits the messages once.
C4_ReceiveSuccessOverwritesCursor ==
    Processed({"Receiving"}, {"ReceiveSuccess"})
        => /\ state = Receiving(previous.input, event.value.cursor)
           /\ Count(invocations, IsEmitMessages) = 1
           /\ Count(invocations,
                    LAMBDA inv : inv = EmitMessages(event.value.messages)) = 1

C4_Witness ==
    /\ Processed({"Receiving"}, {"ReceiveSuccess"})
    /\ previous.cursor # event.value.cursor
    /\ event.value.messages # <<>>
    /\ state.name = "Receiving"
    /\ state.cursor = event.value.cursor

\* C5: a subscription change in Receiving stays in Receiving with the new input and
\* the same cursor: the receive is cancelled and started again for the new input, and
\* there is no handshake.
C5_SubscriptionChangedKeepsCursor ==
    Processed({"Receiving"}, {"SubscriptionChanged"})
        => LET input == SubscribeInput_new(event.value.channels,
                                           event.value.channel_groups)
           IN  /\ state = Receiving(input, previous.cursor)
               /\ invocations = <<CancelReceive, Receive(input, previous.cursor)>>
               /\ running = <<Receive(input, previous.cursor)>>

C5_Witness ==
    /\ Processed({"Receiving"}, {"SubscriptionChanged"})
    /\ state.name = "Receiving"
    /\ state.input # previous.input
    /\ ~state.input.is_empty

\* C6: a restore in a state of the handshake family leads to Handshaking with the
\* input of the event and with the cursor the state preserved if there is one, and
\* the cursor of the event otherwise.
C6_RestoreKeepsPreservedCursor ==
    Processed({"Handshaking", "HandshakeReconnecting", "HandshakeFailed",
               "HandshakeStopped"}, {"SubscriptionRestored"})
        => state = Handshaking(
                      SubscribeInput_new(event.value.channels, event.value.channel_groups),
                      Some(IF previous.cursor.some THEN previous.cursor.value
                           ELSE event.value.cursor))

C6_Witness ==
    /\ Processed({"HandshakeFailed"}, {"SubscriptionRestored"})
    /\ previous.cursor.some
    /\ previous.cursor.value # event.value.cursor
    /\ state.name = "Handshaking"
    /\ state.cursor = previous.cursor

\* C7: a disconnect while receiving (or reconnecting the receive) stops the receive
\* with the same input and cursor and emits Disconnected; the reconnect that follows
\* leads to Handshaking with that input and that cursor.
C7_DisconnectThenReconnect ==
    [][/\ Processed({"Receiving", "ReceiveReconnecting"}, {"Disconnect"})'
            => /\ state' = ReceiveStopped(previous'.input, previous'.cursor)
               /\ Count(invocations', IsEmitStatus) = 1
               /\ Count(invocations', LAMBDA inv : inv = EmitStatus(Disconnected)) = 1
       /\ Processed({"Receiving", "ReceiveReconnecting"}, {"Disconnect"})
            /\ Processed({"ReceiveStopped"}, {"Reconnect"})'
            => state' = Handshaking(previous.input, Some(previous.cursor))]_vars

C7_Witness ==
    /\ Processed({"ReceiveStopped"}, {"Reconnect"})
    /\ state = Handshaking(previous.input, Some(previous.cursor))
    /\ running = <<Handshake(previous.input, Some(previous.cursor))>>

\* the cancel invocation of the effect a state owns
OwnCancel(stName) ==
    CASE stName = "Handshaking" -> <<CancelHandshake>>
      [] stName = "HandshakeReconnecting" -> <<CancelHandshakeReconnect>>
      [] stName = "Receiving" -> <<CancelReceive>>
      [] stName = "ReceiveReconnecting" -> <<CancelReceiveReconnect>>
      [] OTHER -> <<>>

\* C8: UnsubscribeAll in any state but Unsubscribed leads to Unsubscribed, emits
\* Disconnected, cancels the effect of the state left and starts nothing.
C8_UnsubscribeAllCancels ==
    event.some /\ event.value.name = "UnsubscribeAll" /\ previous.name # "Unsubscribed"
        => /\ state = Unsubscribed
           /\ invocations = OwnCancel(previous.name) \o <<EmitStatus(Disconnected)>>
           /\ Count(invocations, IsStart) = 0
           /\ running = <<>>

C8_Witness ==
    /\ Processed({"ReceiveReconnecting"}, {"UnsubscribeAll"})
    /\ state = Unsubscribed
    /\ CancelReceiveReconnect \in Range(invocations)

\* the last completed effect was a handshake reconnection after a transport error,
\* under a Linear policy, for a non-empty input
LinearTransportRetry ==
    /\ policy.name = "Linear"
    /\ lastRun.some
    /\ lastRun.value.invocation.name = "HandshakeReconnect"
    /\ lastRun.value.invocation.reason.kind = "Transport"
    /\ ~lastRun.value.invocation.input.is_empty

C10_NoHandshakeForEmptyInput ==
    /\ state.name = "Handshaking" => ~state.input.is_empty
    /\ \A i \in 1..Len(invocations) :
            invocations[i].name = "Handshake" => ~invocations[i].input.is_empty

\* numeric value of a timetoken string
timetoken_value(timetoken) ==
    CASE timetoken = "0" -> 0
      [] timetoken = "10" -> 10
      [] timetoken = "20" -> 20

\* C11: within a Receiving span the timetoken of the cursor never decreases: after a
\* ReceiveSuccess processed in Receiving, the timetoken of the new cursor is not
\* below the timetoken of the cursor before.
C11_ReceivingCursorMonotonic ==
    Processed({"Receiving"}, {"ReceiveSuccess"}) /\ state.name = "Receiving"
        => timetoken_value(state.cursor.timetoken)
               >= timetoken_value(previous.cursor.timetoken)

\* C12: at most one long-poll effect is in flight, and a transition that starts
\* one issues the cancel invocation of the effect of the state left before the
\* start invocation.
C12_OneOutstandingLongPoll ==
    /\ Len(running) <= 1
    /\ \A i \in 1..Len(invocations) :
            IsStart(invocations[i]) /\ OwnCancel(previous.name) # <<>>
                => \E j \in 1..(i - 1) : invocations[j] = OwnCancel(previous.name)[1]

C12_Witness ==
    /\ Processed({"Receiving"}, {"ReceiveFailure"})
    /\ invocations[1] = CancelReceive
    /\ Len(running) = 1
    /\ running[1].name = "ReceiveReconnect"

\* the retry policy was last asked about a response with a status in `statuses`
Asked(statuses) ==
    /\ retry.some
    /\ retry.value.call = "response"
    /\ retry.value.response.status \in statuses

\* C13: Linear{delay: d, max_retry: m} and a 5xx response: the delay is Some(d) for
\* every attempt a <= m and None for every attempt a > m.
C13_LinearDelay ==
    Asked(500..599) /\ policy.name = "Linear"
        => retry.value.delay = IF retry.value.attempt <= policy.max_retry
                               THEN Some(policy.delay) ELSE None

C13_Witness ==
    /\ Asked(500..599)
    /\ policy = Linear(5, 1)
    /\ retry.value.attempt = 1
    /\ retry.value.delay = Some(5)

\* min(base^exp, cap), computed without leaving the range of cap * base
RECURSIVE capped_pow_from(_, _, _, _)
capped_pow_from(base, exp, cap, acc) ==
    IF exp = 0 THEN acc
    ELSE IF acc * base >= cap
    THEN capped_pow_from(base, exp - 1, cap, cap)
    ELSE capped_pow_from(base, exp - 1, cap, acc * base)

capped_pow(base, exp, cap) ==
    IF exp = 0 \/ base = 1 THEN (IF 1 < cap THEN 1 ELSE cap)
    ELSE IF base = 0 THEN 0
    ELSE capped_pow_from(base, IF exp > 31 THEN 31 ELSE exp, cap, IF 1 < cap THEN 1 ELSE cap)

\* C14: Exponential{min_delay, max_delay, max_retry: m} and a 5xx response: the
\* delay is Some(min(min_delay^a, max_delay)) for every attempt a <= m, whatever the
\* size of min_delay^a, and None for a > m.
C14_ExponentialDelay ==
    Asked(500..599) /\ policy.name = "Exponential"
        => retry.value.delay =
              IF retry.value.attempt <= policy.max_retry
              THEN Some(capped_pow(policy.min_delay, retry.value.attempt,
                                   policy.max_delay))
              ELSE None

\* C15: a 429 response with an integer Retry-After v has delay Some(v) under Linear
\* and Exponential for every attempt, and None under the policy None; a 429
\* response without a Retry-After that parses has delay None under every policy.
C15_TooManyRequestsDelay ==
    Asked({429})
        => retry.value.delay =
              IF policy.name # "None" /\ retry.value.response.retry_after = Some("150")
              THEN Some(150) ELSE None

C15_Witness ==
    /\ Asked({429})
    /\ policy.name = "Linear"
    /\ retry.value.attempt > policy.max_retry
    /\ retry.value.delay = Some(150)

C17_NonePolicyNeverRetries ==
    Asked(0..65535) /\ policy.name = "None"
        => ~retry.value.retriable /\ retry.value.delay = None

\* the manager was last called as `name`
Called(name) == manager.call.some /\ manager.call.value.name = name

\* number of times the subscription with this id is registered
Registrations(id) ==
    Cardinality({i \in 1..Len(manager.subscribers) : manager.subscribers[i].id = id})

\* the updates of a batch on the channels of a subscription, in batch order
RECURSIVE UpdatesFor(_, _)
UpdatesFor(subscription, messages) ==
    IF messages = <<>> THEN <<>>
    ELSE (IF \E i \in 1..Len(subscription.channels) :
                subscription.channels[i] = Head(messages).channel
          THEN <<StreamUpdate(Head(messages))>> ELSE <<>>)
         \o UpdatesFor(subscription, Tail(messages))

\* C18: notify_new_status delivers the status to every registered listener;
\* notify_new_messages delivers to a registered listener the updates of the batch
\* on its channels, in batch order, and nothing else; a listener that is not
\* registered receives nothing.
C18_NotifyFansOut ==
    \A subscription \in Subscriptions :
        LET id == subscription.id
        IN  /\ Called("notify_new_status") /\ Registrations(id) = 1
                => manager.notified[id] = <<StreamStatus(manager.call.value.status)>>
            /\ Called("notify_new_messages") /\ Registrations(id) = 1
                => manager.notified[id]
                       = UpdatesFor(subscription, manager.call.value.messages)
            /\ Registrations(id) = 0 => manager.notified[id] = <<>>

C18_Witness ==
    /\ Called("notify_new_messages")
    /\ manager.call.value.messages = <<Update("ch2", "M2"), Update("ch1", "M1")>>
    /\ Registrations(1) = 1 /\ Registrations(2) = 1 /\ Registrations(3) = 1
    /\ manager.notified[1] = <<StreamUpdate(Update("ch1", "M1"))>>
    /\ manager.notified[2] = <<StreamUpdate(Update("ch2", "M2")),
                               StreamUpdate(Update("ch1", "M1"))>>
    /\ manager.notified[3] = <<>>

\* C19: at most one effect is active per effect id: no two effects in flight have
\* the same id, in the subscribe engine and in the presence engine.
C19_OneEffectPerId ==
    /\ \A i, j \in 1..Len(running) : running[i].name = running[j].name => i = j
    /\ \A i, j \in 1..Len(presence.effects) :
            PresenceEffect_id(presence.effects[i]) = PresenceEffect_id(presence.effects[j])
                => i = j

\* the last step ran a handshake reconnection whose executor was called and
\* returned the EffectCanceled error
ReconnectCanceled ==
    /\ lastRun.some
    /\ lastRun.value.invocation.name = "HandshakeReconnect"
    /\ lastRun.value.result = Err(EffectCanceled)
    /\ retriable_error(policy, lastRun.value.invocation.attempts,
                       Some(lastRun.value.invocation.reason))
    /\ ~lastRun.value.invocation.input.is_empty

\* C20: a handshake reconnection whose executor returns EffectCanceled yields no
\* event: no failure, no give-up; the step leaves the state, and with it the
\* attempts, as they were.
C20_CanceledEffectIsSilent ==
    [][ReconnectCanceled' => lastRun'.value.events = <<>> /\ state' = state]_vars

C20_Witness ==
    /\ ReconnectCanceled
    /\ lastRun.value.events = <<>>
    /\ state.name = "HandshakeReconnecting"
    /\ state.attempts = lastRun.value.invocation.attempts

\* C21: the Leave effect the presence engine runs on LeftAll issues exactly one leave
\* request through the leave executor, for the channels and groups of the effect,
\* and LeftAll returns the engine to Inactive with one Leave invocation.
C21_LeaveIssuesOneRequest ==
    /\ presence.left.some
        => presence.left.value.calls = <<presence.left.value.effect.input>>
    /\ presence.event.some /\ presence.event.value.name = "LeftAll"
            /\ presence.previous.name # "Inactive"
        => /\ presence.state = Inactive
           /\ Count(presence.invocations, LAMBDA inv : inv.name = "Leave") = 1
           /\ Leave(presence.previous.input) \in Range(presence.invocations)

\* the invocations of a transition that neither start nor cancel an effect
MidTransition(invs) == SelectSeq(invs, LAMBDA inv : ~IsStart(inv) /\ ~IsCancel(inv))

\* C22: the invocations of every transition are the exit() invocations of the state
\* left, then the mid-transition invocations, then the enter() invocations of the
\* state entered; hence every entry into Handshaking, HandshakeReconnecting,
\* Receiving or ReceiveReconnecting, self-transitions included, has exactly one
\* start invocation, and it comes after every cancel invocation.
C22_ExitMidEnterOrder ==
    Transitioned
        => /\ invocations = unwrap_or_default(exit(previous))
                                \o MidTransition(invocations)
                                \o unwrap_or_default(enter(state))
           /\ state.name \in {"Handshaking", "HandshakeReconnecting", "Receiving",
                               "ReceiveReconnecting"}
                => /\ Count(invocations, IsStart) = 1
                   /\ \A i, j \in 1..Len(invocations) :
                          IsCancel(invocations[i]) /\ IsStart(invocations[j]) => i < j

C22_Witness ==
    /\ Processed({"Receiving"}, {"ReceiveSuccess"})
    /\ invocations = <<CancelReceive, EmitMessages(event.value.messages),
                        Receive(state.input, state.cursor)>>

\* states in which the engine waits for the application
IdleNames ==
    {"Unsubscribed", "HandshakeStopped", "HandshakeFailed", "ReceiveStopped", "ReceiveFailed"}

\* C23: in Unsubscribed, HandshakeStopped, HandshakeFailed, ReceiveStopped and
\* ReceiveFailed no Handshake, HandshakeReconnect, Receive or ReceiveReconnect effect
\* is in flight: the transition into such a state starts no effect and begins with
\* the cancel invocation of the effect of the state left.
C23_IdleStatesRunNothing ==
    state.name \in IdleNames
        => /\ running = <<>>
           /\ Count(invocations, IsStart) = 0
           /\ Transitioned
                => SubSeq(invocations, 1, Len(OwnCancel(previous.name)))
                       = OwnCancel(previous.name)

C23_Witness ==
    /\ Processed({"ReceiveReconnecting"}, {"ReceiveReconnectGiveUp"})
    /\ state.name = "ReceiveFailed"
    /\ invocations = <<CancelReceiveReconnect, EmitStatus(Disconnected)>>
    /\ running = <<>>

\* C24 as stated: from ReceiveFailed, each of SubscriptionChanged,
\* SubscriptionRestored and Reconnect leads to Handshaking whose cursor is the
\* cursor of the ReceiveFailed state.
C24_ReceiveFailedCarriesCursor ==
    Processed({"ReceiveFailed"}, {"SubscriptionChanged", "SubscriptionRestored", "Reconnect"})
        => /\ state.name = "Handshaking"
           /\ state.cursor = Some(previous.cursor)

\* C24, amended: from ReceiveFailed, SubscriptionChanged and Reconnect lead to
\* Handshaking whose cursor is the cursor of the ReceiveFailed state, and
\* SubscriptionRestored leads to Handshaking whose cursor is the cursor of the
\* event; the input is the input of the event, for Reconnect the input of the state.
C24_ReceiveFailedToHandshaking ==
    /\ Processed({"ReceiveFailed"}, {"SubscriptionChanged"})
        => state = Handshaking(
                      SubscribeInput_new(event.value.channels, event.value.channel_groups),
                      Some(previous.cursor))
    /\ Processed({"ReceiveFailed"}, {"Reconnect"})
        => state = Handshaking(previous.input, Some(previous.cursor))
    /\ Processed({"ReceiveFailed"}, {"SubscriptionRestored"})
        => state = Handshaking(
                      SubscribeInput_new(event.value.channels, event.value.channel_groups),
                      Some(event.value.cursor))

C24_Witness ==
    /\ Processed({"ReceiveFailed"}, {"SubscriptionRestored"})
    /\ previous.cursor # event.value.cursor
    /\ state.name = "Handshaking"
    /\ state.cursor = Some(event.value.cursor)

\* C25: a restore in Receiving or ReceiveReconnecting leads to Receiving with the
\* input of the event and exactly the cursor of the event, whatever the cursor of
\* the state was; the effect of the state left is cancelled and a Receive for the
\* new input and cursor is started.
C25_RestoreWhileReceiving ==
    Processed({"Receiving", "ReceiveReconnecting"}, {"SubscriptionRestored"})
        => LET input == SubscribeInput_new(event.value.channels,
                                           event.value.channel_groups)
           IN  /\ state = Receiving(input, event.value.cursor)
               /\ invocations = OwnCancel(previous.name)
                                    \o <<Receive(input, event.value.cursor)>>

C25_Witness ==
    /\ Processed({"ReceiveReconnecting"}, {"SubscriptionRestored"})
    /\ previous.cursor # event.value.cursor
    /\ state.name = "Receiving"
    /\ state.cursor = event.value.cursor
    /\ invocations[1] = CancelReceiveReconnect

\* C26: in ReceiveStopped a subscription change and a restore stay in ReceiveStopped
\* with the input of the event (and, for the restore, the cursor of the event) and
\* issue no invocation; ReceiveStopped is left only by Reconnect, to Handshaking, and
\* by UnsubscribeAll, to Unsubscribed.
C26_ReceiveStoppedStaysStopped ==
    event.some /\ previous.name = "ReceiveStopped"
        => /\ event.value.name = "SubscriptionChanged"
                => /\ state = ReceiveStopped(
                                  SubscribeInput_new(event.value.channels,
                                                     event.value.channel_groups),
                                  previous.cursor)
                   /\ invocations = <<>>
           /\ event.value.name = "SubscriptionRestored"
                => /\ state = ReceiveStopped(
                                  SubscribeInput_new(event.value.channels,
                                                     event.value.channel_groups),
                                  event.value.cursor)
                   /\ invocations = <<>>
           /\ event.value.name = "Reconnect" => state.name = "Handshaking"
           /\ event.value.name = "UnsubscribeAll" => state = Unsubscribed
           /\ state.name # "ReceiveStopped"
                => \/ event.value.name = "Reconnect" /\ state.name = "Handshaking"
                   \/ event.value.name = "UnsubscribeAll" /\ state = Unsubscribed

C26_Witness ==
    /\ Processed({"ReceiveStopped"}, {"SubscriptionRestored"})
    /\ state.name = "ReceiveStopped"
    /\ state.input # previous.input
    /\ state.cursor # previous.cursor
    /\ invocations = <<>>
    /\ running = <<>>

\* C27: in HandshakeFailed and in HandshakeStopped, a subscription change, a restore
\* and a reconnect each lead to Handshaking and start a Handshake; the subscription
\* change and the reconnect keep the cursor of the state, and the reconnect keeps
\* its input.
C27_HandshakeResumes ==
    Processed({"HandshakeFailed", "HandshakeStopped"},
              {"SubscriptionChanged", "SubscriptionRestored", "Reconnect"})
        => /\ state.name = "Handshaking"
           /\ invocations = <<Handshake(state.input, state.cursor)>>
           /\ event.value.name \in {"SubscriptionChanged", "Reconnect"}
                => state.cursor = previous.cursor
           /\ event.value.name = "Reconnect" => state.input = previous.input

C27_Witness ==
    /\ Processed({"HandshakeFailed"}, {"Reconnect"})
    /\ previous.cursor.some
    /\ state = Handshaking(previous.input, previous.cursor)
    /\ invocations = <<Handshake(previous.input, previous.cursor)>>

\* C28: a disconnect in Handshaking or HandshakeReconnecting leads to
\* HandshakeStopped with the same input and the same cursor, present or not; its
\* only invocation is the cancel of the handshake effect of the state left, and no
\* status is emitted.
C28_DisconnectWhileHandshaking ==
    Processed({"Handshaking", "HandshakeReconnecting"}, {"Disconnect"})
        => /\ state = HandshakeStopped(previous.input, previous.cursor)
           /\ invocations = OwnCancel(previous.name)
           /\ Len(invocations) = 1
           /\ Count(invocations, IsEmitStatus) = 0

C28_Witness ==
    /\ Processed({"HandshakeReconnecting"}, {"Disconnect"})
    /\ previous.cursor.some
    /\ state = HandshakeStopped(previous.input, previous.cursor)
    /\ invocations = <<CancelHandshakeReconnect>>

\* the handshake reconnection last executed, and whether its attempt was retriable
Reconnection == lastRun.value.invocation

ReconnectionRetriable ==
    retriable_error(policy, Reconnection.attempts, Some(Reconnection.reason))

\* what the handshake reconnection does once the policy allows the attempt and the
\* input is not empty: one executor call, and the event for its result
ExecutorDecides ==
    /\ lastRun.value.calls
           = <<SubscriptionParams(Reconnection.input.channels,
                                  Reconnection.input.channel_groups, None,
                                  Reconnection.attempts, Some(Reconnection.reason))>>
    /\ lastRun.value.result.ok
        => lastRun.value.events = <<HandshakeReconnectSuccess(lastRun.value.result.cursor)>>
    /\ ~lastRun.value.result.ok /\ lastRun.value.result.error # EffectCanceled
        => lastRun.value.events = <<HandshakeReconnectFailure(lastRun.value.result.error)>>

\* C29 as stated: the handshake reconnection gives up, without an executor call,
\* exactly when the policy reports the attempt as not retriable; an empty input
\* always yields UnsubscribeAll; otherwise the executor is called once and decides.
C29_EmptyInputAlwaysUnsubscribes ==
    lastRun.some
        => /\ lastRun.value.events = <<HandshakeReconnectGiveUp(Reconnection.reason)>>
                <=> ~ReconnectionRetriable
           /\ ~ReconnectionRetriable => lastRun.value.calls = <<>>
           /\ Reconnection.input.is_empty => lastRun.value.events = <<UnsubscribeAll>>
           /\ ReconnectionRetriable /\ ~Reconnection.input.is_empty => ExecutorDecides

\* C29, amended: the handshake reconnection gives up, without an executor call,
\* exactly when the policy reports the attempt as not retriable, whatever the input;
\* a retriable attempt for an empty input yields UnsubscribeAll without an executor
\* call; otherwise the executor is called once and decides.
C29_GiveUpBeforeEmptyInput ==
    lastRun.some
        => /\ lastRun.value.events = <<HandshakeReconnectGiveUp(Reconnection.reason)>>
                <=> ~ReconnectionRetriable
           /\ ~ReconnectionRetriable => lastRun.value.calls = <<>>
           /\ ReconnectionRetriable /\ Reconnection.input.is_empty
                => lastRun.value.events = <<UnsubscribeAll>> /\ lastRun.value.calls = <<>>
           /\ ReconnectionRetriable /\ ~Reconnection.input.is_empty => ExecutorDecides

C29_Witness ==
    /\ lastRun.some
    /\ Reconnection.input.is_empty
    /\ ~ReconnectionRetriable
    /\ lastRun.value.events = <<HandshakeReconnectGiveUp(Reconnection.reason)>>
    /\ lastRun.value.calls = <<>>

\* C30: a ReceiveFailure in Receiving leads to ReceiveReconnecting with the same
\* input and cursor, attempts 1 and the reason of the event; each
\* ReceiveReconnectFailure in ReceiveReconnecting keeps input and cursor, increases
\* attempts by exactly 1 and replaces the reason with the reason of the event.
C30_ReceiveFailuresCountAttempts ==
    /\ Processed({"Receiving"}, {"ReceiveFailure"})
        => state = ReceiveReconnecting(previous.input, previous.cursor, 1,
                                       event.value.reason)
    /\ Processed({"ReceiveReconnecting"}, {"ReceiveReconnectFailure"})
        => state = ReceiveReconnecting(previous.input, previous.cursor,
                                       previous.attempts + 1, event.value.reason)

\* C31: a ReceiveReconnectGiveUp in ReceiveReconnecting leads to ReceiveFailed with
\* the same input and cursor and the reason of the event, and emits Disconnected
\* exactly once; in every other state the event changes nothing and has no
\* invocation.
C31_ReceiveGiveUpFails ==
    /\ Processed({"ReceiveReconnecting"}, {"ReceiveReconnectGiveUp"})
        => /\ state = ReceiveFailed(previous.input, previous.cursor, event.value.reason)
           /\ Count(invocations, IsEmitStatus) = 1
           /\ invocations = <<CancelReceiveReconnect, EmitStatus(Disconnected)>>
    /\ Processed(StateNames \ {"ReceiveReconnecting"}, {"ReceiveReconnectGiveUp"})
        => state = previous /\ invocations = <<>>

C31_Witness ==
    /\ Processed({"ReceiveReconnecting"}, {"ReceiveReconnectGiveUp"})
    /\ previous.reason # event.value.reason
    /\ state.name = "ReceiveFailed"
    /\ state.reason = event.value.reason
    /\ EmitStatus(Disconnected) \in Range(invocations)

\* the last presence event came from the application and was handled in stName
PresenceAppEventIn(stName) ==
    /\ presence.event.some
    /\ presence.event.value.name \in {"Joined", "LeftAll", "Disconnect"}
    /\ presence.previous.name = stName

PresenceInFlight(name) ==
    \E i \in 1..Len(presence.effects) : presence.effects[i].name = name

\* C32: cancel() of a Wait and of a DelayedHeartbeat sends the id of the effect on
\* the cancellation channel, and cancel() of a Heartbeat and of a Leave sends
\* nothing; an application event that leaves HeartbeatCooldown or
\* HeartbeatReconnecting aborts the Wait, respectively the DelayedHeartbeat, in
\* flight: its id is sent and the effect is no longer running.
C32_WaitAndDelayedHeartbeatCancellable ==
    /\ \A i \in 1..Len(presence.effects) :
            LET effect == presence.effects[i]
            IN  PresenceEffect_cancel(effect)
                    = CASE effect.name = "Wait" -> <<"WAIT">>
                        [] effect.name = "DelayedHeartbeat" -> <<"DELAYED_HEARTBEAT">>
                        [] effect.name \in {"Heartbeat", "Leave"} -> <<>>
    /\ PresenceAppEventIn("HeartbeatCooldown")
        => /\ ~PresenceInFlight("Wait")
           /\ presence.channel # <<>>
           /\ presence.channel[Len(presence.channel)] = "WAIT"
    /\ PresenceAppEventIn("HeartbeatReconnecting")
        => /\ ~PresenceInFlight("DelayedHeartbeat")
           /\ presence.channel # <<>>
           /\ presence.channel[Len(presence.channel)] = "DELAYED_HEARTBEAT"

C32_Witness ==
    /\ PresenceAppEventIn("HeartbeatCooldown")
    /\ presence.event.value.name = "Joined"
    /\ presence.channel = <<"WAIT">>
    /\ ~PresenceInFlight("Wait")
    /\ PresenceInFlight("Heartbeat")

\* number of times the subscription with this id is in a list of subscribers
Occurrences(subscribers, id) ==
    Cardinality({i \in 1..Len(subscribers) : subscribers[i].id = id})

\* C33: register appends the listener to the list; unregister removes one listener
\* with the id of its argument and keeps every other listener; unregister of a
\* listener that is not registered leaves the list as it was; a listener that was
\* registered once is, after its unregister, not in the list and receives no
\* status and no message.
C33_RegisterUnregister ==
    /\ Called("register")
        => manager.subscribers
               = Append(manager.call.value.subscribers, manager.call.value.subscription)
    /\ Called("unregister")
        => LET before == manager.call.value.subscribers
               id == manager.call.value.subscription.id
           IN  /\ Occurrences(before, id) = 0 => manager.subscribers = before
               /\ Occurrences(before, id) > 0
                    => Occurrences(manager.subscribers, id) = Occurrences(before, id) - 1
               /\ Occurrences(before, id) = 1 => Registrations(id) = 0
               /\ \A other \in SubscriptionIds \ {id} :
                      Occurrences(manager.subscribers, other) = Occurrences(before, other)
    /\ \A id \in SubscriptionIds : Registrations(id) = 0 => manager.notified[id] = <<>>

C33_Witness ==
    /\ Called("unregister")
    /\ manager.call.value.subscription.id = 1
    /\ Len(manager.call.value.subscribers) = 3
    /\ manager.call.value.subscribers[1].id = 1
    /\ Occurrences(manager.call.value.subscribers, 1) = 1
    /\ Len(manager.subscribers) = 2
    /\ Registrations(1) = 0

-----------------------------------------------------------------------------
(* SubscribeInput on its own: lastRun holds the last operation, its operands and
   its result; the result is the left operand of the next operation *)

\* channel vectors given to SubscribeInput::new
NewChannels == {None, Some(<<>>), Some(<<"ch1">>), Some(<<"ch2">>), Some(<<"ch1", "ch2", "ch1">>)}

\* channel-group vectors given to SubscribeInput::new; one group has the name of a
\* channel
NewGroups == {None, Some(<<>>), Some(<<"gr1">>), Some(<<"ch1", "gr1">>)}

NewInputs == {SubscribeInput_new(c, g) : c \in NewChannels, g \in NewGroups}

InputInit ==
    /\ state = Unsubscribed
    /\ policy = RequestRetryPolicy_None
    /\ event = None
    /\ previous = Unsubscribed
    /\ invocations = <<>>
    /\ running = <<>>
    /\ lastRun = None
    /\ retry = None
    /\ manager = SubscriptionManager_new
    /\ presence = PresenceEngine_new
    /\ queue = <<>>

InputUnchanged ==
    UNCHANGED <<state, policy, event, previous, invocations, running, retry, manager,
                presence, queue>>

InputNew ==
    \E channels \in NewChannels, channel_groups \in NewGroups :
        /\ lastRun' = Some([op |-> "new", channels |-> channels,
                            channel_groups |-> channel_groups,
                            result |-> SubscribeInput_new(channels, channel_groups)])
        /\ InputUnchanged

InputAdd ==
    \E rhs \in NewInputs :
        /\ lastRun.some
        /\ lastRun' = Some([op |-> "add", lhs |-> lastRun.value.result, rhs |-> rhs,
                            result |-> SubscribeInput_add(lastRun.value.result, rhs)])
        /\ InputUnchanged

InputAddAssign ==
    \E rhs \in NewInputs :
        /\ lastRun.some
        /\ lastRun' = Some([op |-> "add_assign", lhs |-> lastRun.value.result, rhs |-> rhs,
                            result |-> SubscribeInput_add_assign(lastRun.value.result, rhs)])
        /\ InputUnchanged

InputSub ==
    \E rhs \in NewInputs :
        /\ lastRun.some
        /\ lastRun' = Some([op |-> "sub", lhs |-> lastRun.value.result, rhs |-> rhs,
                            result |-> SubscribeInput_sub(lastRun.value.result, rhs)])
        /\ InputUnchanged

InputSubAssign ==
    \E rhs \in NewInputs :
        /\ lastRun.some
        /\ lastRun' = Some([op |-> "sub_assign", lhs |-> lastRun.value.result, rhs |-> rhs,
                            result |-> SubscribeInput_sub_assign(lastRun.value.result, rhs)])
        /\ InputUnchanged

InputNext == InputNew \/ InputAdd \/ InputAddAssign \/ InputSub \/ InputSubAssign

InputSpec == InputInit /\ [][InputNext]_vars

\* the members of an optional set: none when the set is absent
Members(set) == IF set.some THEN set.value ELSE {}

\* C34: for every SubscribeInput produced by new, +, +=, - or -=, is_empty holds
\* exactly when the channel set and the channel-group set are both absent or empty;
\* + yields the union of the channels and the union of the groups, - yields the
\* difference of the channels and the difference of the groups, and += and -= give
\* the result of + and -.
C34_InputAlgebra ==
    lastRun.some
    => LET run == lastRun.value
           result == run.result
       IN  /\ result.is_empty
                <=> (Members(result.channels) = {} /\ Members(result.channel_groups) = {})
           /\ run.op \in {"add", "add_assign"}
                => /\ Members(result.channels)
                        = Members(run.lhs.channels) \cup Members(run.rhs.channels)
                   /\ Members(result.channel_groups)
                        = Members(run.lhs.channel_groups) \cup Members(run.rhs.channel_groups)
           /\ run.op \in {"sub", "sub_assign"}
                => /\ Members(result.channels)
                        = Members(run.lhs.channels) \ Members(run.rhs.channels)
                   /\ Members(result.channel_groups)
                        = Members(run.lhs.channel_groups) \ Members(run.rhs.channel_groups)
           /\ run.op = "add_assign" => result = SubscribeInput_add(run.lhs, run.rhs)
           /\ run.op = "sub_assign" => result = SubscribeInput_sub(run.lhs, run.rhs)

C34_Witness ==
    /\ lastRun.some
    /\ lastRun.value.op = "sub"
    /\ lastRun.value.lhs.channels = Some({"ch1", "ch2"})
    /\ lastRun.value.lhs.channel_groups = None
    /\ lastRun.value.rhs.channels = Some({"ch1"})
    /\ lastRun.value.rhs.channel_groups = Some({"ch1", "gr1"})
    /\ lastRun.value.result.channels = Some({"ch2"})
    /\ lastRun.value.result.channel_groups = None
    /\ ~lastRun.value.result.is_empty

-----------------------------------------------------------------------------
(* The engine with its handshake effects under failures without end: every failure
   event comes from the effect, which asks the retry policy first *)

\* policies of the reconnection: none, a small budget, the largest u8 budget
GiveUpPolicies == {RequestRetryPolicy_None, Linear(0, MaxRetry), Linear(0, 255)}

\* errors of the executor: network, server error, too many requests
GiveUpResults == {Err(Transport("t1")), Err(API(500)), Err(API(429))}

GiveUpInit ==
    /\ state = Unsubscribed
    /\ policy \in GiveUpPolicies
    /\ event = None
    /\ previous = Unsubscribed
    /\ invocations = <<>>
    /\ running = <<>>
    /\ lastRun = None
    /\ retry = None
    /\ manager = SubscriptionManager_new
    /\ presence = PresenceEngine_new
    /\ queue = <<>>

\* an effect completes with `events`, whatever the number of attempts
Completes(inv, result, events) ==
    /\ lastRun' = Some([invocation |-> inv, result |-> result, events |-> events])
    /\ IF events = <<>>
       THEN /\ running' = SelectSeq(running, LAMBDA other : other # inv)
            /\ UNCHANGED <<state, policy, event, previous, invocations, retry, manager,
                           presence, queue>>
       ELSE process_with(SelectSeq(running, LAMBDA other : other # inv), events[1])

\* the handshake fails
GiveUpHandshake ==
    \E i \in 1..Len(running), result \in GiveUpResults :
        /\ state # Panic
        /\ running[i].name = "Handshake"
        /\ Completes(running[i], result, handshake_execute(running[i].input, result))

\* the reconnection asks the retry policy, calls the executor and fails
GiveUpHandshakeReconnect ==
    \E i \in 1..Len(running), result \in GiveUpResults :
        /\ state # Panic
        /\ running[i].name = "HandshakeReconnect"
        /\ Completes(running[i], result,
                     handshake_reconnection_execute(running[i].input, running[i].attempts,
                                                    running[i].reason, policy, result))

GiveUpNext == AttemptsSubscribe \/ GiveUpHandshake \/ GiveUpHandshakeReconnect

GiveUpSpec == GiveUpInit /\ [][GiveUpNext]_vars

\* C35: the attempts counter of HandshakeReconnecting and ReceiveReconnecting never
\* overflows its 8-bit range: whatever the retry policy and the failures, the engine
\* gives up before attempts + 1 exceeds 255, so no transition panics and a
\* reconnect failure never leaves a count that is not larger than the one before.
C35_AttemptsNeverOverflow ==
    /\ state # Panic
    /\ (/\ event.some
        /\ event.value.name \in {"HandshakeReconnectFailure", "ReceiveReconnectFailure"}
        /\ previous.name \in {"HandshakeReconnecting", "ReceiveReconnecting"})
        => state.attempts > previous.attempts

\* C36: retriable and retry_delay agree: for every policy, attempt and response,
\* retriable(attempt, status) is true exactly when retry_delay(attempt, response)
\* returns Some delay.
C36_RetriableAgreesWithDelay ==
    retry.some /\ retry.value.call = "response"
    => (retry.value.retriable
            <=> (IF retry.value.delay = Panic THEN FALSE ELSE retry.value.delay.some))

-----------------------------------------------------------------------------
(* The engine with its event queue: the application and the effects put events at
   the end of the queue, the engine processes the event at its head.  lastRun
   holds the invocation whose effect produced the event processed last. *)

\* at most this many events wait in the queue
MaxQueue == 2

\* events of the application
QueueAppEvents ==
    {SubscriptionChanged(Some(<<"ch1", "ch1">>), None),
     SubscriptionChanged(Some(<<"ch1", "ch1">>), Some(<<"gr1">>)),
     UnsubscribeAll}

\* what the handshake call returns
QueueResults == {Ok(SubscribeCursor("10", 1)), Err(API(500))}

QueueInit ==
    /\ state = Unsubscribed
    /\ policy = Linear(0, 1)
    /\ event = None
    /\ previous = Unsubscribed
    /\ invocations = <<>>
    /\ running = <<>>
    /\ lastRun = None
    /\ retry = None
    /\ manager = SubscriptionManager_new
    /\ presence = PresenceEngine_new
    /\ queue = <<>>

\* the events of an effect, each with the invocation of the effect
Produced(inv, events) == [i \in 1..Len(events) |-> [event |-> events[i], from |-> Some(inv)]]

\* an effect ends: it is in flight no more and its events wait in the queue
Enqueue(inv, events) ==
    /\ Len(queue) + Len(events) <= MaxQueue
    /\ queue' = queue \o Produced(inv, events)
    /\ running' = SelectSeq(running, LAMBDA other : other # inv)
    /\ UNCHANGED <<state, policy, event, previous, invocations, lastRun, retry, manager,
                   presence>>

\* the application sends an event
QueueApplication ==
    \E ev \in QueueAppEvents :
        /\ Len(queue) < MaxQueue
        /\ queue' = Append(queue, [event |-> ev, from |-> None])
        /\ UNCHANGED <<state, policy, event, previous, invocations, running, lastRun, retry,
                       manager, presence>>

\* SubscribeEffect::Handshake ends
QueueHandshake ==
    \E i \in 1..Len(running), result \in QueueResults :
        /\ running[i].name = "Handshake"
        /\ Enqueue(running[i], handshake_execute(running[i].input, result))

\* SubscribeEffect::HandshakeReconnect ends
QueueHandshakeReconnect ==
    \E i \in 1..Len(running), result \in QueueResults :
        /\ running[i].name = "HandshakeReconnect"
        /\ Enqueue(running[i],
                   handshake_reconnection_execute(running[i].input, running[i].attempts,
                                                  running[i].reason, policy, result))

\* the engine processes the event at the head of the queue
QueueProcess ==
    /\ queue # <<>>
    /\ WithinBounds(Head(queue).event)
    /\ EventEngine_process(running, Head(queue).event)
    /\ queue' = Tail(queue)
    /\ lastRun' = Head(queue).from

QueueNext == QueueApplication \/ QueueHandshake \/ QueueHandshakeReconnect \/ QueueProcess

QueueSpec == QueueInit /\ [][QueueNext]_vars

\* C38: an event of an effect started for an earlier state is never applied as if
\* it belonged to the current state: the engine enters Receiving{input} (and emits
\* Connected) on a handshake success only if the success comes from a handshake
\* issued for exactly that input.
C38_SuccessBelongsToState ==
    (/\ Transitioned
     /\ event.value.name \in {"HandshakeSuccess", "HandshakeReconnectSuccess"}
     /\ state.name = "Receiving")
    => /\ lastRun.some
       /\ lastRun.value.name \in {"Handshake", "HandshakeReconnect"}
       /\ lastRun.value.input = state.input

-----------------------------------------------------------------------------
(* The engine with the history of its status emissions: lastRun holds the status,
   Connected or Disconnected, emitted last before the last process() call *)

StatusInit ==
    /\ state = Unsubscribed
    /\ policy = RequestRetryPolicy_None
    /\ event = None
    /\ previous = Unsubscribed
    /\ invocations = <<>>
    /\ running = <<>>
    /\ lastRun = None
    /\ retry = None
    /\ manager = SubscriptionManager_new
    /\ presence = PresenceEngine_new
    /\ queue = <<>>

\* positions of EmitStatus(Connected) and EmitStatus(Disconnected) in invocations
StatusEmissions(invs) ==
    {i \in 1..Len(invs) :
        invs[i].name = "EmitStatus" /\ invs[i].status \in {Connected, Disconnected}}

\* the status emitted last, once `invs` are emitted after `before`
LastStatus(invs, before) ==
    IF StatusEmissions(invs) = {} THEN before
    ELSE Some(invs[CHOOSE i \in StatusEmissions(invs) :
                       \A j \in StatusEmissions(invs) : j <= i].status)

StatusAppEvents ==
    {SubscriptionChanged(c, g) : c \in ChannelLists, g \in GroupLists}
        \cup {SubscriptionRestored(c, g, cur) :
                 c \in ChannelLists, g \in GroupLists, cur \in Cursors}
        \cup {Disconnect, Reconnect, UnsubscribeAll}

StatusApplication ==
    \E ev \in StatusAppEvents :
        /\ process(ev)
        /\ lastRun' = LastStatus(invocations, lastRun)

StatusEffect ==
    \E ev \in EffectEvents :
        /\ WithinBounds(ev)
        /\ process(ev)
        /\ lastRun' = LastStatus(invocations, lastRun)

StatusNext == StatusApplication \/ StatusEffect

StatusSpec == StatusInit /\ [][StatusNext]_vars

\* the last process() call emitted this status
Emitted(status) ==
    \E i \in 1..Len(invocations) : invocations[i] = EmitStatus(status)

\* C39: Connected is never emitted twice without a Disconnected in between, and
\* every event other than UnsubscribeAll emits Disconnected only if Connected
\* was emitted since the previous Disconnected.
C39_StatusAlternatesButUnsubscribe ==
    /\ Emitted(Connected) => lastRun # Some(Connected)
    /\ Emitted(Disconnected) /\ event.value.name # "UnsubscribeAll"
        => lastRun = Some(Connected)

C39_Witness ==
    /\ event = Some(Disconnect)
    /\ previous.name = "Receiving"
    /\ Emitted(Disconnected)
    /\ lastRun = Some(Connected)

\* C39 as stated: Disconnected is emitted only if Connected was emitted since the
\* previous Disconnected (never twice in a row, never before the first Connected),
\* and Connected is never emitted twice without a Disconnected in between.
C39_StatusAlternates ==
    /\ Emitted(Connected) => lastRun # Some(Connected)
    /\ Emitted(Disconnected) => lastRun = Some(Connected)

\* the states of the handshake family
HandshakeFamily ==
    {"Handshaking", "HandshakeReconnecting", "HandshakeStopped", "HandshakeFailed"}

\* C40: a preserved cursor is stable until the engine receives again: when a
\* state of the handshake family holds cursor Some(c), the state after any event
\* is a state of the handshake family with cursor Some(c), or Receiving with cursor
\* c whatever cursor the handshake returned, or Unsubscribed; and Disconnect in
\* Receiving{c} followed by Reconnect gives Handshaking with cursor Some(c).
C40_PreservedCursorStable ==
    /\ (event.some /\ previous.name \in HandshakeFamily /\ previous.cursor.some)
        => \/ state.name = "Unsubscribed"
           \/ state.name \in HandshakeFamily /\ state.cursor = previous.cursor
           \/ state.name = "Receiving" /\ state.cursor = previous.cursor.value
    /\ (event = Some(Disconnect) /\ previous.name = "Receiving")
        => state = ReceiveStopped(previous.input, previous.cursor)
    /\ (event = Some(Reconnect) /\ previous.name = "ReceiveStopped")
        => state = Handshaking(previous.input, Some(previous.cursor))

C40_Witness ==
    /\ event.some
    /\ event.value.name = "HandshakeReconnectSuccess"
    /\ previous.name = "HandshakeReconnecting"
    /\ previous.cursor = Some(SubscribeCursor("10", 1))
    /\ event.value.cursor = SubscribeCursor("20", 1)
    /\ state.name = "Receiving"
    /\ state.cursor = SubscribeCursor("10", 1)

====
